---- MODULE Spec2Model ----
(***************************************************************************)
(* Model of the municipal-compliance pipeline:                             *)
(*   - the orchestrator's run_pipeline state machine (orchestrate),        *)
(*   - the chunk store: handleUpsert / handleSearch / quantizeEmbedding    *)
(*     / cosineSim (mongo-upsert),                                         *)
(*   - the index setup script.                                             *)
(* Real numbers are modelled exactly: embedding components are integers    *)
(* (values on a grid), a similarity is kept as the pair (dot, magA*magB)   *)
(* standing for dot / sqrt(magA*magB), and a threshold as a fraction.      *)
(***************************************************************************)
EXTENDS Integers, Sequences, FiniteSets, TLC

VARIABLES
    \* ---- orchestrator run (runPipelineSync) ----
    job,             \* the PipelineJob record
    pc,              \* position of the run: discover / parse / embed / upsert / done
    pdfIdx,          \* loop position in job.discovered_pdfs
    allChunks,       \* local allChunks
    chunksBySource,  \* local Map, as a sequence of [key, chunks] in insertion order
    groupIdx,        \* loop position in chunksBySource
    embeddedChunks,  \* local embeddedChunks
    calls,           \* the collaborator calls of the run, in order, and how each ended
    response,        \* the response returned to the caller
    \* ---- chunk store (collection document_chunks) ----
    store,           \* the collection, in natural (insertion) order
    nextId,          \* next _id the server generates
    now,             \* wall clock, in milliseconds
    indexes,         \* collection name -> set of indexes created on it
    clients,         \* in-flight handleUpsert invocations, one per concurrent caller
    lastWrite,       \* key -> the $set document of the write applied last
    upsertLog,       \* requests and responses of the completed handleUpsert calls
    searchOut,       \* locals and response of the last handleSearch call
    \* ---- cosineSim applied to a pair of vectors ----
    simIn,
    simOut,
    \* ---- the deployment and the embedding function ----
    env,             \* names of the environment variables that are set
    voyage,          \* the voyage-embed invocation serving the current group
    request,         \* body of the request to the orchestrate entry point
    queryEmbedding,  \* runSearch's local queryEmbedding
    issued,          \* number of collaborator calls the run has issued
    \* ---- a function applied to an input ----
    fnIn,
    fnOut

vars == <<job, pc, pdfIdx, allChunks, chunksBySource, groupIdx, embeddedChunks,
          calls, response, store, nextId, now, indexes, clients, lastWrite,
          upsertLog, searchOut, simIn, simOut, env, voyage,
          request, queryEmbedding, issued, fnIn, fnOut>>

pipeVars  == <<job, pc, pdfIdx, allChunks, chunksBySource, groupIdx,
               embeddedChunks, calls, response>>
simVars   == <<simIn, simOut>>
svcVars   == <<env, voyage, request, queryEmbedding, issued, fnIn, fnOut>>

-----------------------------------------------------------------------------
(* Bounds of the model                                                     *)

MaxPdfs    == 2    \* documents a discovery answer lists
MaxChunks  == 2    \* chunks one extraction answer holds
MaxClock   == 3    \* handleUpsert calls in the upsert specifications
MaxStored  == 2    \* handleUpsert calls that fill the store searched
MaxLimit   == 2    \* largest search limit
MaxDim     == 2    \* longest vector given to cosineSim
MaxRecords == 3    \* records of a collection given to a search
MaxComponents == 3 \* longest vector given to quantizeEmbedding
MaxValue   == 2    \* largest absolute value of a component of such a vector
MaxTokens  == 5    \* longest markdown text given to the normalizer
MaxPosted  == 3    \* chunks of a small request to the embedding function
MaxAttempts == 4   \* largest maxRetries given to retryWithBackoff
MaxCallers == 4    \* requests that call getMongoClient in one isolate

-----------------------------------------------------------------------------
(* Program constants                                                       *)

BATCH_SIZE      == 100
COLLECTION_NAME == "document_chunks"
COLLECTION      == "zoning_chunks"
FIND_LIMIT      == 500
VOYAGE_BATCH_SIZE == 128
maxRetries      == 3
NOISE_THRESHOLD == 10
DEFAULT_LIMIT   == 10
DISCOVER_LIMIT  == 20
PDF_LIMIT       == 3
DEFAULT_MIN_SCORE == [n |-> 7, d |-> 10]

-----------------------------------------------------------------------------
(* Generic helpers                                                         *)

Min2(a, b) == IF a <= b THEN a ELSE b

\* Array.prototype.slice(0, end) for end >= 0
SliceTo(s, end) == SubSeq(s, 1, Min2(end, Len(s)))

RECURSIVE SeqSum(_)
SeqSum(s) == IF s = <<>> THEN 0 ELSE Head(s) + SeqSum(Tail(s))

\* chunkArray(array, size)
RECURSIVE chunkArray(_, _)
chunkArray(array, size) ==
    IF Len(array) = 0 THEN <<>>
    ELSE <<SubSeq(array, 1, Min2(size, Len(array)))>>
         \o chunkArray(SubSeq(array, Min2(size, Len(array)) + 1, Len(array)), size)

-----------------------------------------------------------------------------
(* quantizeEmbedding                                                       *)

RECURSIVE SeqMin(_)
SeqMin(s) == IF Len(s) = 1 THEN s[1]
             ELSE LET m == SeqMin(Tail(s)) IN IF s[1] < m THEN s[1] ELSE m

RECURSIVE SeqMax(_)
SeqMax(s) == IF Len(s) = 1 THEN s[1]
             ELSE LET m == SeqMax(Tail(s)) IN IF s[1] > m THEN s[1] ELSE m

\* Math.round(num / den) for den > 0: halves round towards +infinity
RoundDiv(num, den) == (2 * num + den) \div (2 * den)

\* quantizeEmbedding scaling the raw value, without normalizing it
quantizeEmbedding_mut(embedding) ==
    [i \in 1..Len(embedding) |-> RoundDiv(255 * embedding[i] - 128, 1)]

quantizeEmbedding(embedding) ==
    IF embedding = <<>> THEN <<>>
    ELSE LET min == SeqMin(embedding)
             max == SeqMax(embedding)
             range == IF max - min = 0 THEN 1 ELSE max - min
         IN  [i \in 1..Len(embedding) |->
                 RoundDiv(255 * (embedding[i] - min) - 128 * range, range)]

-----------------------------------------------------------------------------
(* The collection and one updateOne({source_url, chunk_index}, {$set},     *)
(* {upsert: true}) operation of handleUpsert's bulkWrite                   *)

UniqueKeyIndex == "source_url_1_chunk_index_1_unique"

Key(d) == <<d.source_url, d.chunk_index>>

\* position of the first record the filter matches, 0 when there is none
FindOne(st, doc) ==
    LET
        \* filter: { source_url: doc.source_url, chunk_index: doc.chunk_index }
        MatchFilter(rec) ==
            rec.source_url = doc.source_url /\ rec.chunk_index = doc.chunk_index
    IN
    IF \E i \in 1..Len(st) : MatchFilter(st[i])
    THEN CHOOSE i \in 1..Len(st) :
            /\ MatchFilter(st[i])
            /\ \A j \in 1..(i - 1) : ~MatchFilter(st[j])
    ELSE 0

\* update: { $set: {...} } of one document, stamped at ts
SetDoc(doc, ts) ==
    [text                 |-> doc.text,
     embedding            |-> quantizeEmbedding(doc.embedding),
     embedding_dimensions |-> Len(doc.embedding),
     file_number          |-> doc.file_number,
     source_url           |-> doc.source_url,
     page_number          |-> doc.page_number,
     bbox                 |-> doc.bbox,
     chunk_index          |-> doc.chunk_index,
     embedded_at          |-> ts]

\* the stored record: the $set fields under an _id
Record(id, set) ==
    [_id                  |-> id,
     text                 |-> set.text,
     embedding            |-> set.embedding,
     embedding_dimensions |-> set.embedding_dimensions,
     file_number          |-> set.file_number,
     source_url           |-> set.source_url,
     page_number          |-> set.page_number,
     bbox                 |-> set.bbox,
     chunk_index          |-> set.chunk_index,
     embedded_at          |-> set.embedded_at]

\* the $set applied to the matched record i; modifiedCount counts a change only
ApplyUpdate(db, i, set) ==
    LET new == Record(db.store[i]._id, set)
    IN  [db EXCEPT !.store = [db.store EXCEPT ![i] = new],
                   !.modified = db.modified + (IF new = db.store[i] THEN 0 ELSE 1)]

\* the insert of an upsert that matched nothing
ApplyInsert(db, set) ==
    [db EXCEPT !.store = Append(db.store, Record(db.nextId, set)),
               !.nextId = db.nextId + 1,
               !.upserted = db.upserted + 1]

\* UpdateOne written as a plain insert
UpdateOne_mut(db, doc, ts) == ApplyInsert(db, SetDoc(doc, ts))

\* one updateOne with upsert: true, with no other writer in between
UpdateOne(db, doc, ts) ==
    LET i == FindOne(db.store, doc)
    IN  IF i = 0 THEN ApplyInsert(db, SetDoc(doc, ts))
        ELSE ApplyUpdate(db, i, SetDoc(doc, ts))

\* collection.bulkWrite(bulkOps): the operations in order. Each operation is
\* applied to the collection as the one before left it; the test on
\* db.nextId, which always holds, has that state computed before the next
\* operation is taken up, so that a long batch is evaluated operation by
\* operation
RECURSIVE BulkWrite(_, _, _)
BulkWrite(db, batch, ts) ==
    IF batch = <<>> \/ db.nextId < 1 THEN db
    ELSE BulkWrite(UpdateOne(db, Head(batch), ts), Tail(batch), ts)

\* the batch loop of handleUpsert: each batch is stamped with the clock read
\* when its operations are prepared, and the round trip of its bulkWrite
\* takes at least one clock tick
RECURSIVE UpsertBatches(_, _)
UpsertBatches(db, batches) ==
    IF batches = <<>> THEN db
    ELSE UpsertBatches(
             [BulkWrite(db, Head(batches), db.now) EXCEPT !.now = db.now + 1],
             Tail(batches))

\* handleUpsert run without any concurrent writer
handleUpsert(st, nid, clock, documents) ==
    LET db == UpsertBatches([store |-> st, nextId |-> nid, now |-> clock,
                             upserted |-> 0, modified |-> 0],
                            chunkArray(documents, BATCH_SIZE))
    IN  [store |-> db.store, nextId |-> db.nextId, now |-> db.now,
         upserted_count |-> db.upserted, modified_count |-> db.modified]

-----------------------------------------------------------------------------
(* cosineSim and the comparison of its results                             *)

Dot(a, b) == SeqSum([i \in 1..Len(a) |-> a[i] * b[i]])

\* a similarity value: NaN, or the number dot / sqrt(mag) with mag > 0
NaN     == [nan |-> TRUE,  dot |-> 0, mag |-> 1]

cosineSim(a, b) ==
    LET
        Zero == [nan |-> FALSE, dot |-> 0, mag |-> 1]
    IN
    IF Len(a) # Len(b) THEN Zero
    ELSE LET dot  == Dot(a, b)
             magA == Dot(a, a)
             magB == Dot(b, b)
         IN  IF magA * magB = 0 THEN NaN     \* 0 / 0
             ELSE [nan |-> FALSE, dot |-> dot, mag |-> magA * magB]

\* sign of a/b - c/d for a, c >= 0 and b, d > 0, without forming products
RECURSIVE FracCmp(_, _, _, _)
FracCmp(a, b, c, d) ==
    LET qa == a \div b
        qc == c \div d
        ra == a % b
        rc == c % d
    IN  IF qa # qc THEN (IF qa > qc THEN 1 ELSE -1)
        ELSE IF ra = 0 /\ rc = 0 THEN 0
        ELSE IF ra = 0 THEN -1
        ELSE IF rc = 0 THEN 1
        ELSE FracCmp(d, rc, b, ra)

\* sign of s - t for two numbers s, t
ScoreCmp(s, t) ==
    IF s.dot >= 0 /\ t.dot < 0 THEN 1
    ELSE IF s.dot < 0 /\ t.dot >= 0 THEN -1
    ELSE IF s.dot >= 0
         THEN FracCmp(s.dot * s.dot, s.mag, t.dot * t.dot, t.mag)
         ELSE FracCmp(t.dot * t.dot, t.mag, s.dot * s.dot, s.mag)

\* the fraction n/d (d > 0) as a number
Frac(f) == [nan |-> FALSE, dot |-> f.n, mag |-> f.d * f.d]

\* s >= t of JavaScript: false when either side is NaN
ScoreGE(s, t) == ~s.nan /\ ~t.nan /\ ScoreCmp(s, t) >= 0

-----------------------------------------------------------------------------
(* handleSearch                                                            *)

\* Candidates without the file-number condition of the filter
Candidates_mut(st, file_numbers) ==
    SliceTo(SelectSeq(st, LAMBDA r : "embedding" \in DOMAIN r), FIND_LIMIT)

\* find(filter).limit(500): records with an embedding, narrowed by file number
Candidates(st, file_numbers) ==
    SliceTo(SelectSeq(st, LAMBDA r :
                "embedding" \in DOMAIN r
                /\ (file_numbers # {} => r.file_number \in file_numbers)),
            FIND_LIMIT)

\* PassesMinScore written as !(doc.score < min_score), which NaN passes
PassesMinScore_mut(score, min_score) ==
    ~(~score.nan /\ ScoreCmp(score, Frac(min_score)) < 0)

\* .filter(doc => doc.score >= min_score)
PassesMinScore(score, min_score) == ScoreGE(score, Frac(min_score))

\* Comparator with its operands swapped: a.score - b.score
Comparator_mut(a, b) == ScoreCmp(a.score, b.score)

\* the comparator (a, b) => b.score - a.score, as a sign
Comparator(a, b) == ScoreCmp(b.score, a.score)

\* Array.prototype.sort is stable: x goes after every element that does not
\* compare greater than it
RECURSIVE InsertSorted(_, _)
InsertSorted(sorted, x) ==
    IF sorted = <<>> THEN <<x>>
    ELSE IF Comparator(Head(sorted), x) <= 0
         THEN <<Head(sorted)>> \o InsertSorted(Tail(sorted), x)
         ELSE <<x>> \o sorted

RECURSIVE SortDocs(_)
SortDocs(s) ==
    IF s = <<>> THEN <<>>
    ELSE InsertSorted(SortDocs(SubSeq(s, 1, Len(s) - 1)), s[Len(s)])

\* ResultDocument spreading the stored record into the result
ResultDocument_mut(doc) ==
    [_id |-> doc._id, text |-> doc.text, embedding |-> doc.embedding,
     file_number |-> doc.file_number, source_url |-> doc.source_url,
     page_number |-> doc.page_number, bbox |-> doc.bbox,
     chunk_index |-> doc.chunk_index]

\* the document of a result: the record with its embedding emptied
ResultDocument(doc) ==
    [_id |-> doc._id, text |-> doc.text, embedding |-> <<>>,
     file_number |-> doc.file_number, source_url |-> doc.source_url,
     page_number |-> doc.page_number, bbox |-> doc.bbox,
     chunk_index |-> doc.chunk_index]

\* req: query_embedding, file_numbers (a set, empty when absent), and the
\* optional limit and min_score (<<>> when absent, <<v>> when given)
handleSearch(st, req) ==
    LET limit     == IF req.limit = <<>> THEN DEFAULT_LIMIT ELSE req.limit[1]
        min_score == IF req.min_score = <<>> THEN DEFAULT_MIN_SCORE
                     ELSE req.min_score[1]
        allDocs   == Candidates(st, req.file_numbers)
        scored    == [i \in 1..Len(allDocs) |->
                         [doc   |-> allDocs[i],
                          score |-> cosineSim(req.query_embedding,
                                              allDocs[i].embedding)]]
        documents == SliceTo(
                         SortDocs(SelectSeq(scored, LAMBDA d :
                             PassesMinScore(d.score, min_score))),
                         limit)
        results   == [i \in 1..Len(documents) |->
                         [document |-> ResultDocument(documents[i].doc),
                          score    |-> documents[i].score]]
    IN  [allDocs |-> allDocs, limit |-> limit, min_score |-> min_score,
         results |-> results, total_found |-> Len(results)]

-----------------------------------------------------------------------------
(* The orchestrator: runPipelineSync                                       *)

PdfLists ==
    LET
        \* documents the discovery collaborator can list
        PdfSet == {[url |-> "u1", file_number |-> "f1"],
                   [url |-> "u2", file_number |-> "f1"]}
    IN
    UNION {[1..n -> PdfSet] : n \in 0..MaxPdfs}

\* how a fetch of a collaborator can end: the fetch itself rejects, the answer
\* is not 2xx, the answer's body is not JSON, or the answer is read
Outcomes == {"reject", "not_ok", "bad_json", "ok"}

\* parseResult.data.chunks of an extraction answer holding k chunks
ParsedChunks(k) ==
    LET
        \* chunk i of an extraction answer (reducto-parse numbers them from 0)
        ParsedChunk(i) ==
            [text |-> IF i % 2 = 0 THEN "old" ELSE "new", page_number |-> i + 1,
             bbox |-> IF i % 2 = 0 THEN "bbox_a" ELSE "bbox_b", chunk_index |-> i]
    IN
    [i \in 1..k |-> ParsedChunk(i - 1)]

\* the vector the embedding service returns for a text
EmbeddingOf(text) == IF text = "old" THEN <<1, 2>> ELSE <<2, 1>>

NoResponse == [sent |-> FALSE]

\* createResponse with success taken from the error instead of its absence
createResponse_mut(data, error) ==
    LET isError == error # <<>> /\ error[1] # ""
    IN  [sent    |-> TRUE,
         success |-> isError,
         status  |-> IF isError THEN 500 ELSE 200,
         data    |-> data,
         error   |-> IF isError THEN error ELSE <<>>]

\* createResponse(data, error): error is <<>> for null, <<message>> otherwise
createResponse(data, error) ==
    LET isError == error # <<>> /\ error[1] # ""
    IN  [sent    |-> TRUE,
         success |-> ~isError,
         status  |-> IF isError THEN 500 ELSE 200,
         data    |-> data,
         error   |-> IF isError THEN error ELSE <<>>]

\* const job: PipelineJob = {...}
NewJob(id, clock) ==
    [job_id          |-> id,
     status          |-> "discovering",
     discovered_pdfs |-> <<>>,
     parsed_chunks   |-> 0,
     embedded_chunks |-> 0,
     upserted_chunks |-> 0,
     started_at      |-> clock,
     completed_at    |-> <<>>,
     error           |-> <<>>]

\* Throws with a failed extraction or embedding call caught per document
Throws_mut(stage, outcome) ==
    \/ outcome \in {"reject", "bad_json"} /\ stage \in {"discover", "upsert"}
    \/ outcome = "not_ok" /\ stage \in {"discover", "upsert"}

\* whether the way a call ended makes the orchestrator throw: a rejected fetch
\* and an unreadable body always do, a non-2xx answer only where the code
\* throws on !response.ok (discovery, upsert); extraction and embedding log it
\* and continue
Throws(stage, outcome) ==
    \/ outcome \in {"reject", "bad_json"}
    \/ outcome = "not_ok" /\ stage \in {"discover", "upsert"}

\* the message of the error thrown
ErrorMessage(stage, outcome) ==
    IF outcome = "reject" THEN "fetch failed"
    ELSE IF outcome = "bad_json" THEN "Unexpected token in JSON"
    ELSE IF stage = "discover" THEN "Discovery failed"
    ELSE IF stage = "query_embed" THEN "Query embedding failed"
    ELSE IF stage = "search" THEN "Search failed"
    ELSE "Upsert failed"

\* Catch answering with a job whose counters are cleared
Catch_mut(j, message, clock) ==
    [j EXCEPT !.status = "failed", !.error = <<message>>,
              !.completed_at = <<clock>>, !.discovered_pdfs = <<>>,
              !.parsed_chunks = 0, !.embedded_chunks = 0,
              !.upserted_chunks = 0]

\* the catch block's assignments to the job
Catch(j, message, clock) ==
    [j EXCEPT !.status = "failed", !.error = <<message>>,
              !.completed_at = <<clock>>]

\* Enter with step 4 announcing itself as "embedding" again
Enter_mut(j, status) ==
    [j EXCEPT !.status = IF status = "upserting" THEN "embedding" ELSE status]

\* job.status = "parsing" | "embedding" | "upserting"
Enter(j, status) == [j EXCEPT !.status = status]

\* NoChunks with the zero-chunk short-circuit left out
NoChunks_mut(chunks) == FALSE

\* if (allChunks.length === 0)
NoChunks(chunks) == Len(chunks) = 0

\* the Map key of a chunk: file_number:source_url
SourceKey(c) == <<c.file_number, c.source_url>>

\* GroupBySource with every chunk put in a group of its own
GroupBySource_mut(chunks) ==
    [k \in 1..Len(chunks) |->
        [key |-> SourceKey(chunks[k]), chunks |-> <<chunks[k]>>]]

\* chunksBySource: chunks grouped under file_number:source_url. A Map keeps
\* its keys in insertion order, so the groups stand in the order in which
\* their first chunk appears, and each group holds its chunks in order
GroupBySource(chunks) ==
    LET first  == {i \in 1..Len(chunks) :
                      \A j \in 1..(i - 1) :
                          SourceKey(chunks[j]) # SourceKey(chunks[i])}
        nth(k) == CHOOSE i \in first : Cardinality({j \in first : j <= i}) = k
        SameSource(k, c) == SourceKey(c) = SourceKey(chunks[nth(k)])
    IN  [k \in 1..Cardinality(first) |->
            [key    |-> SourceKey(chunks[nth(k)]),
             chunks |-> SelectSeq(chunks, LAMBDA c : SameSource(k, c))]]

\* the chunks pushed to allChunks for one parsed document
CollectChunks(pdf, chunks) ==
    [i \in 1..Len(chunks) |->
        [text        |-> chunks[i].text,
         file_number |-> pdf.file_number,
         source_url  |-> pdf.url,
         page_number |-> chunks[i].page_number,
         bbox        |-> chunks[i].bbox,
         chunk_index |-> chunks[i].chunk_index]]

\* the chunks voyage-embed answers for one group, as pushed to embeddedChunks
EmbedGroupChunks(group) ==
    [i \in 1..Len(group.chunks) |->
        [text        |-> group.chunks[i].text,
         page_number |-> group.chunks[i].page_number,
         bbox        |-> group.chunks[i].bbox,
         chunk_index |-> group.chunks[i].chunk_index,
         embedding   |-> EmbeddingOf(group.chunks[i].text),
         file_number |-> group.key[1],
         source_url  |-> group.key[2]]]

\* the run is over: the catch block, then the error response
Fail(stage, outcome, clock) ==
    LET failed == Catch(job, ErrorMessage(stage, outcome), clock)
    IN  /\ job' = failed
        /\ pc' = "done"
        /\ response' = createResponse([job |-> failed],
                                      <<ErrorMessage(stage, outcome)>>)

\* Finish leaving completed_at unset
Finish_mut(j, message, clock) ==
    /\ job' = [j EXCEPT !.status = "completed"]
    /\ pc' = "done"
    /\ response' = createResponse(
           [job |-> [j EXCEPT !.status = "completed"], message |-> message],
           <<>>)

\* the run is over without error
Finish(j, message, clock) ==
    LET
        \* the job when the run ends without error
        Complete ==
            [j EXCEPT !.status = "completed", !.completed_at = <<clock>>]
    IN
    /\ job' = Complete
    /\ pc' = "done"
    /\ response' = createResponse(
           [job |-> Complete, message |-> message], <<>>)

Called(stage, outcome) ==
    calls' = Append(calls, [stage |-> stage, outcome |-> outcome])

\* Step 1: the discovery call and what follows it up to the next call
Discover(outcome, pdfs) ==
    /\ pc = "discover"
    /\ Called("discover", outcome)
    /\ IF Throws("discover", outcome)
       THEN /\ Fail("discover", outcome, now)
            /\ UNCHANGED <<pdfIdx, allChunks>>
       ELSE LET found == [job EXCEPT !.discovered_pdfs = pdfs]
            IN  IF Len(pdfs) = 0
                THEN /\ Finish(found, "No PDFs found to process.", now)
                     /\ UNCHANGED <<pdfIdx, allChunks>>
                ELSE /\ job' = Enter(found, "parsing")
                     /\ pc' = "parse"
                     /\ pdfIdx' = 1
                     /\ allChunks' = <<>>
                     /\ UNCHANGED response
    /\ UNCHANGED <<chunksBySource, groupIdx, embeddedChunks>>
    /\ UNCHANGED <<store, nextId, now, indexes, clients, lastWrite, upsertLog,
                   searchOut, simIn, simOut>>
    /\ UNCHANGED svcVars

\* Step 2, one iteration: the extraction call for document pdfIdx; after the
\* last document, the code that follows the loop up to the next call
ParsePdf(outcome, k) ==
    /\ pc = "parse"
    /\ Called("parse", outcome)
    /\ IF Throws("parse", outcome)
       THEN /\ Fail("parse", outcome, now)
            /\ UNCHANGED <<pdfIdx, allChunks, chunksBySource, groupIdx,
                           embeddedChunks>>
       ELSE LET pdf     == job.discovered_pdfs[pdfIdx]
                chunks  == IF outcome = "ok"
                           THEN allChunks \o CollectChunks(pdf, ParsedChunks(k))
                           ELSE allChunks
                counted == IF outcome = "ok"
                           THEN [job EXCEPT !.parsed_chunks = Len(chunks)]
                           ELSE job
            IN  /\ allChunks' = chunks
                /\ IF pdfIdx < Len(job.discovered_pdfs)
                   THEN /\ pdfIdx' = pdfIdx + 1
                        /\ job' = counted
                        /\ UNCHANGED <<pc, response, chunksBySource, groupIdx,
                                       embeddedChunks>>
                   ELSE IF NoChunks(chunks)
                   THEN /\ Finish(counted, "No chunks extracted from PDFs.", now)
                        /\ UNCHANGED <<pdfIdx, chunksBySource, groupIdx,
                                       embeddedChunks>>
                   ELSE /\ chunksBySource' = GroupBySource(chunks)
                        /\ groupIdx' = 1
                        /\ embeddedChunks' = <<>>
                        \* a Map without entries: the embedding loop body
                        \* never runs and the upsert call comes next
                        /\ IF chunksBySource' = <<>>
                           THEN /\ job' = Enter(Enter(counted, "embedding"),
                                                "upserting")
                                /\ pc' = "upsert"
                           ELSE /\ job' = Enter(counted, "embedding")
                                /\ pc' = "embed"
                        /\ UNCHANGED <<pdfIdx, response>>
    /\ UNCHANGED <<store, nextId, now, indexes, clients, lastWrite, upsertLog,
                   searchOut, simIn, simOut>>
    /\ UNCHANGED svcVars

\* Step 3, one iteration: the embedding call for group groupIdx; after the
\* last group the job enters upserting
EmbedGroup(outcome) ==
    /\ pc = "embed"
    /\ Called("embed", outcome)
    /\ IF Throws("embed", outcome)
       THEN /\ Fail("embed", outcome, now)
            /\ UNCHANGED <<groupIdx, embeddedChunks>>
       ELSE LET embedded == IF outcome = "ok"
                            THEN embeddedChunks
                                 \o EmbedGroupChunks(chunksBySource[groupIdx])
                            ELSE embeddedChunks
                counted  == IF outcome = "ok"
                            THEN [job EXCEPT !.embedded_chunks = Len(embedded)]
                            ELSE job
            IN  /\ embeddedChunks' = embedded
                /\ IF groupIdx < Len(chunksBySource)
                   THEN /\ groupIdx' = groupIdx + 1
                        /\ job' = counted
                        /\ UNCHANGED pc
                   ELSE /\ job' = Enter(counted, "upserting")
                        /\ pc' = "upsert"
                        /\ UNCHANGED groupIdx
                /\ UNCHANGED response
    /\ UNCHANGED <<pdfIdx, allChunks, chunksBySource>>
    /\ UNCHANGED <<store, nextId, now, indexes, clients, lastWrite, upsertLog,
                   searchOut, simIn, simOut>>
    /\ UNCHANGED svcVars

\* Step 4: the upsert call; applied tells whether the store ran the request
\* when the orchestrator never got to read the answer
UpsertCall(outcome, applied) ==
    /\ pc = "upsert"
    /\ Called("upsert", outcome)
    /\ LET res == handleUpsert(store, nextId, now, embeddedChunks)
       IN  /\ IF outcome = "ok" \/ (outcome \in {"reject", "bad_json"} /\ applied)
              THEN /\ store' = res.store
                   /\ nextId' = res.nextId
                   /\ now' = res.now
              ELSE UNCHANGED <<store, nextId, now>>
           /\ IF Throws("upsert", outcome)
              THEN Fail("upsert", outcome, now')
              ELSE Finish([job EXCEPT !.upserted_chunks = res.upserted_count],
                          "Pipeline complete!", now')
    /\ UNCHANGED <<pdfIdx, allChunks, chunksBySource, groupIdx, embeddedChunks>>
    /\ UNCHANGED <<indexes, clients, lastWrite, upsertLog, searchOut, simIn, simOut>>
    /\ UNCHANGED svcVars

-----------------------------------------------------------------------------
(* Initial values shared by the specifications                             *)

IdleClient == [phase |-> "idle", batches |-> <<>>, ops |-> <<>>, ts |-> 0,
               upserted |-> 0, modified |-> 0]

Clients == {1, 2}

InitPipe ==
    /\ job = NewJob(1, 0)
    /\ pc = "discover"
    /\ pdfIdx = 0
    /\ allChunks = <<>>
    /\ chunksBySource = <<>>
    /\ groupIdx = 0
    /\ embeddedChunks = <<>>
    /\ calls = <<>>
    /\ response = NoResponse

InitStore ==
    /\ store = <<>>
    /\ nextId = 1
    /\ now = 0
    /\ indexes = [c \in {COLLECTION_NAME, COLLECTION} |-> {}]
    /\ clients = [c \in Clients |-> IdleClient]
    /\ lastWrite = <<>>
    /\ upsertLog = <<>>
    /\ searchOut = [called |-> FALSE]

InitSim ==
    /\ simIn = <<>>
    /\ simOut = <<>>

\* the environment variables the functions require
Credentials == {"SUPABASE_URL", "REDUCTO_API_KEY", "VOYAGE_API_KEY", "MONGODB_URI"}

\* no voyage-embed invocation is being served
IdleVoyage == [phase |-> "idle"]

\* a deployment with every variable set
InitSvc ==
    /\ env = Credentials
    /\ voyage = IdleVoyage
    /\ request = <<>>
    /\ queryEmbedding = <<>>
    /\ issued = 0
    /\ fnIn = <<>>
    /\ fnOut = <<>>

-----------------------------------------------------------------------------
(* Specification of pipeline runs                                          *)

InitPipeline == InitPipe /\ InitStore /\ InitSim /\ InitSvc

NextPipeline ==
    \/ \E outcome \in Outcomes, pdfs \in PdfLists :
           Discover(outcome, pdfs)
    \/ \E outcome \in Outcomes, k \in 0..MaxChunks :
           ParsePdf(outcome, k)
    \/ \E outcome \in Outcomes : EmbedGroup(outcome)
    \/ \E outcome \in Outcomes :
           \E applied \in (IF outcome \in {"reject", "bad_json"}
                            THEN BOOLEAN ELSE {TRUE}) :
               UpsertCall(outcome, applied)

SpecPipeline == InitPipeline /\ [][NextPipeline]_vars

\* a run over a collection that is empty or holds what an earlier run stored
\* for both documents
InitRerun ==
    LET earlier == EmbedGroupChunks([key    |-> <<"f1", "u1">>,
                                     chunks |-> ParsedChunks(MaxChunks)])
                   \o EmbedGroupChunks([key    |-> <<"f1", "u2">>,
                                        chunks |-> ParsedChunks(MaxChunks)])
    IN  /\ InitPipe /\ InitSim /\ InitSvc
        /\ \E documents \in {<<>>, earlier} :
               /\ store = handleUpsert(<<>>, 1, 0, documents).store
               /\ nextId = handleUpsert(<<>>, 1, 0, documents).nextId
               /\ now = handleUpsert(<<>>, 1, 0, documents).now
        /\ indexes = [c \in {COLLECTION_NAME, COLLECTION} |-> {}]
        /\ clients = [c \in Clients |-> IdleClient]
        /\ lastWrite = <<>>
        /\ upsertLog = <<>>
        /\ searchOut = [called |-> FALSE]

SpecRerun == InitRerun /\ [][NextPipeline]_vars

-----------------------------------------------------------------------------
(* Requests to the store                                                   *)

Doc(url, index, v, embedding, file_number) ==
    [text        |-> v,
     embedding   |-> embedding,
     file_number |-> file_number,
     source_url  |-> url,
     page_number |-> IF v = "old" THEN 1 ELSE 2,
     bbox        |-> IF v = "old" THEN "bbox_a" ELSE "bbox_b",
     chunk_index |-> index]

D1 == Doc("u1", 0, "old", <<1, 2>>, "f1")
D3 == Doc("u2", 0, "old", <<1, 3>>, "f2")   \* quantizes like D1
\* the documents arrays of the upsert requests
Payloads ==
    LET
        D2 == Doc("u1", 0, "new", <<2, 1>>, "f1")   \* the key of D1, re-processed
        D4 == Doc("u1", 1, "old", <<3, 3>>, "f1")
        D5 == Doc("u2", 1, "new", <<>>, "f2")       \* an empty vector
    IN
    {<<D1>>, <<D2>>, <<D3>>, <<D4>>, <<D5>>, <<D1, D2>>, <<D1, D4>>, <<>>}

StoredKeys(st) == {Key(st[i]) : i \in 1..Len(st)}

\* what the log keeps of a call: the request, the keys stored before it, and
\* the response
LogEntry(documents, before, upserted, modified) ==
    [documents |-> documents, before |-> before,
     upserted_count |-> upserted, modified_count |-> modified]

\* a whole handleUpsert call with no other writer active
UpsertRequest(documents) ==
    /\ LET res == handleUpsert(store, nextId, now, documents)
       IN  /\ store' = res.store
           /\ nextId' = res.nextId
           /\ now' = res.now
           /\ upsertLog' = Append(upsertLog,
                  LogEntry(documents, StoredKeys(store),
                           res.upserted_count, res.modified_count))
    /\ searchOut' = [called |-> FALSE]
    /\ UNCHANGED <<indexes, clients, lastWrite>>
    /\ UNCHANGED pipeVars
    /\ UNCHANGED simVars
    /\ UNCHANGED svcVars

\* the query vectors, file-number filters, limits and thresholds of the
\* search requests
Queries    == {<<-1, 0>>, <<1, 0>>, <<-1, -1>>, <<0, 0>>, <<>>}
Filters    == {{}, {"f1"}}
Limits     == {<<>>} \cup {<<l>> : l \in 0..MaxLimit}
MinScores  == {<<>>, <<[n |-> 0, d |-> 1]>>, <<[n |-> 1, d |-> 2]>>}

SearchRequests ==
    [query_embedding : Queries, file_numbers : Filters,
     limit : Limits, min_score : MinScores]

\* a handleSearch call
SearchRequest(req) ==
    /\ ~searchOut.called
    /\ LET out == handleSearch(store, req)
       IN  searchOut' = [called    |-> TRUE,
                         req       |-> req,
                         allDocs   |-> out.allDocs,
                         limit     |-> out.limit,
                         min_score |-> out.min_score,
                         results   |-> out.results,
                         total_found |-> out.total_found]
    /\ UNCHANGED <<store, nextId, now, indexes, clients, lastWrite, upsertLog>>
    /\ UNCHANGED pipeVars
    /\ UNCHANGED simVars
    /\ UNCHANGED svcVars

NextUpsert ==
    \E documents \in Payloads :
        Len(upsertLog) < MaxClock /\ UpsertRequest(documents)

\* upsert requests served one after the other
SpecUpsert == InitPipeline /\ [][NextUpsert]_vars

NextSearch ==
    \/ \E documents \in Payloads :
           Len(upsertLog) < MaxStored /\ UpsertRequest(documents)
    \/ \E req \in SearchRequests : SearchRequest(req)

\* search requests on the stores that upsert requests produce
SpecSearch == InitPipeline /\ [][NextSearch]_vars

\* chunks of one document stored one request after the other, then searched
\* with the embedding one of them was sent with
NextRank ==
    \/ \E e \in {<<1, 2>>, <<2, 1>>, <<-1, -2>>, <<1, 1>>, <<2, 4>>} :
           /\ Len(upsertLog) < MaxStored
           /\ UpsertRequest(<<Doc("u1", Len(upsertLog), "old", e, "f1")>>)
    \/ \E k \in 1..Len(upsertLog), m \in {<<>>, <<[n |-> 0, d |-> 1]>>} :
           SearchRequest([query_embedding |-> upsertLog[k].documents[1].embedding,
                          file_numbers    |-> {},
                          limit           |-> <<>>,
                          min_score       |-> m])

SpecRank == InitPipeline /\ [][NextRank]_vars

-----------------------------------------------------------------------------
(* Searches of a collection that also holds records without an embedding   *)

\* the records a collection is made of
StoredPool ==
    LET
        \* a record of the collection that has no embedding field
        BareRecord(file_number) ==
            [_id |-> 0, text |-> "old", file_number |-> file_number,
             source_url |-> "u3", page_number |-> 1, bbox |-> "bbox_a",
             chunk_index |-> 0]
    IN
    {Record(0, SetDoc(D1, 0)), Record(0, SetDoc(D3, 0)),
     BareRecord("f1"), BareRecord("f2")}

\* the collections of up to MaxRecords records, _id in insertion order
Collections ==
    UNION {{[i \in 1..n |-> [c[i] EXCEPT !._id = i]] : c \in [1..n -> StoredPool]} :
              n \in 0..MaxRecords}

InitCandidates ==
    /\ InitPipe /\ InitSim /\ InitSvc
    /\ store \in Collections
    /\ nextId = Len(store) + 1
    /\ now = 0
    /\ indexes = [c \in {COLLECTION_NAME, COLLECTION} |-> {}]
    /\ clients = [c \in Clients |-> IdleClient]
    /\ lastWrite = <<>>
    /\ upsertLog = <<>>
    /\ searchOut = [called |-> FALSE]

NextCandidates == \E req \in SearchRequests : SearchRequest(req)

SpecCandidates == InitCandidates /\ [][NextCandidates]_vars

-----------------------------------------------------------------------------
(* Concurrent handleUpsert calls, one bulk operation at a time             *)

Busy == {c \in Clients : clients[c].phase # "idle"}

\* the server-side state an operation of client c works on
Db(c) == [store |-> store, nextId |-> nextId, now |-> now,
          upserted |-> clients[c].upserted, modified |-> clients[c].modified]

\* handleUpsert is called: the first batch's operations are prepared and
\* stamped, and its bulkWrite is sent
BeginUpsert(c, documents) ==
    /\ clients[c].phase = "idle"
    /\ Len(upsertLog) + Cardinality(Busy) < MaxClock
    /\ LET batches == chunkArray(documents, BATCH_SIZE)
       IN  IF batches = <<>>
           THEN /\ upsertLog' = Append(upsertLog,
                       LogEntry(documents, StoredKeys(store), 0, 0))
                /\ UNCHANGED clients
           ELSE /\ clients' = [clients EXCEPT ![c] =
                       [phase |-> "find", documents |-> documents,
                        before |-> StoredKeys(store),
                        batches |-> Tail(batches), ops |-> Head(batches),
                        ts |-> now, upserted |-> 0, modified |-> 0]]
                /\ UNCHANGED upsertLog
    /\ UNCHANGED <<store, nextId, now, indexes, lastWrite, searchOut>>
    /\ UNCHANGED pipeVars
    /\ UNCHANGED simVars
    /\ UNCHANGED svcVars

\* the server looks up the filter of client c's next operation: a match is
\* updated in place; without a match the operation goes on to insert
OpFind(c) ==
    /\ clients[c].phase = "find"
    /\ clients[c].ops # <<>>
    /\ LET doc == Head(clients[c].ops)
           set == SetDoc(doc, clients[c].ts)
           i   == FindOne(store, doc)
       IN  IF i = 0
           THEN /\ clients' = [clients EXCEPT ![c].phase = "insert"]
                /\ UNCHANGED <<store, lastWrite>>
           ELSE LET db == ApplyUpdate(Db(c), i, set)
                IN  /\ store' = db.store
                    /\ lastWrite' = (Key(doc) :> set) @@ lastWrite
                    /\ clients' = [clients EXCEPT ![c].modified = db.modified,
                                                  ![c].ops = Tail(@)]
    /\ UNCHANGED <<nextId, now, indexes, upsertLog, searchOut>>
    /\ UNCHANGED pipeVars
    /\ UNCHANGED simVars
    /\ UNCHANGED svcVars

\* the insert of an upsert that found no match; only a unique index on the
\* collection makes the server notice a record another writer has inserted
\* meanwhile, and then the operation is retried as an update
OpInsert(c) ==
    /\ clients[c].phase = "insert"
    /\ LET doc == Head(clients[c].ops)
           set == SetDoc(doc, clients[c].ts)
       IN  IF UniqueKeyIndex \in indexes[COLLECTION_NAME] /\ FindOne(store, doc) # 0
           THEN /\ clients' = [clients EXCEPT ![c].phase = "find"]
                /\ UNCHANGED <<store, nextId, lastWrite>>
           ELSE LET db == ApplyInsert(Db(c), set)
                IN  /\ store' = db.store
                    /\ nextId' = db.nextId
                    /\ lastWrite' = (Key(doc) :> set) @@ lastWrite
                    /\ clients' = [clients EXCEPT ![c].phase = "find",
                                                  ![c].upserted = db.upserted,
                                                  ![c].ops = Tail(@)]
    /\ UNCHANGED <<now, indexes, upsertLog, searchOut>>
    /\ UNCHANGED pipeVars
    /\ UNCHANGED simVars
    /\ UNCHANGED svcVars

\* the bulkWrite of client c returns: the next batch is prepared, or the
\* totals are answered
BatchDone(c) ==
    /\ clients[c].phase = "find"
    /\ clients[c].ops = <<>>
    /\ now' = now + 1
    /\ IF clients[c].batches # <<>>
       THEN /\ clients' = [clients EXCEPT ![c].ops = Head(clients[c].batches),
                                          ![c].batches = Tail(@),
                                          ![c].ts = now']
            /\ UNCHANGED upsertLog
       ELSE /\ upsertLog' = Append(upsertLog,
                   LogEntry(clients[c].documents, clients[c].before,
                            clients[c].upserted, clients[c].modified))
            /\ clients' = [clients EXCEPT ![c] = IdleClient]
    /\ UNCHANGED <<store, nextId, indexes, lastWrite, searchOut>>
    /\ UNCHANGED pipeVars
    /\ UNCHANGED simVars
    /\ UNCHANGED svcVars

createVectorSearchIndex ==
    LET
        \* the setup script's standard indexes, created on its collection
        IndexesCreated ==
            {"file_number_1", UniqueKeyIndex, "page_number_1", "metadata.section_1"}
    IN
    /\ indexes[COLLECTION] = {}
    /\ indexes' = [indexes EXCEPT ![COLLECTION] = IndexesCreated]
    /\ UNCHANGED <<store, nextId, now, clients, lastWrite, upsertLog, searchOut>>
    /\ UNCHANGED pipeVars
    /\ UNCHANGED simVars
    /\ UNCHANGED svcVars

NextStore ==
    \/ \E c \in Clients, documents \in Payloads : BeginUpsert(c, documents)
    \/ \E c \in Clients : OpFind(c)
    \/ \E c \in Clients : OpInsert(c)
    \/ \E c \in Clients : BatchDone(c)
    \/ createVectorSearchIndex

\* the store under concurrent upsert requests
SpecStore == InitPipeline /\ [][NextStore]_vars

-----------------------------------------------------------------------------
(* cosineSim on its own                                                    *)

InitCosine ==
    LET
        Vectors == UNION {[1..n -> -1..1] : n \in 0..MaxDim}
    IN
    /\ InitPipe /\ InitStore /\ InitSvc
    /\ simIn \in Vectors \X Vectors
    /\ simOut = <<>>

ApplyCosineSim ==
    /\ simOut = <<>>
    /\ simOut' = <<cosineSim(simIn[1], simIn[2])>>
    /\ UNCHANGED simIn
    /\ UNCHANGED pipeVars
    /\ UNCHANGED <<store, nextId, now, indexes, clients, lastWrite, upsertLog,
                   searchOut>>
    /\ UNCHANGED svcVars

SpecCosine == InitCosine /\ [][ApplyCosineSim]_vars

-----------------------------------------------------------------------------
(* The orchestrate entry point: serve, runSearch, and the credentials the  *)
(* functions behind the calls require                                      *)

\* getRequiredEnv(key) returns (TRUE) or throws (FALSE)
getRequiredEnv(key) == key \in env

\* the message getRequiredEnv throws with
MissingEnv(key) == "Missing required environment variable: " \o key

\* a function whose credential is missing answers 500 from its catch block
\* and does nothing else
HandlerRuns(stage) ==
    LET
        \* the credential the function behind a call reads before anything else
        \* (<<>> when it reads none)
        RequiredBy ==
            IF stage = "parse" THEN <<"REDUCTO_API_KEY">>
            ELSE IF stage = "embed" THEN <<"VOYAGE_API_KEY">>
            ELSE IF stage \in {"upsert", "search"} THEN <<"MONGODB_URI">>
            ELSE <<>>
    IN
    RequiredBy = <<>> \/ getRequiredEnv(RequiredBy[1])

\* an answer sent from serve's catch block or from an early return
Respond(message) ==
    /\ response' = createResponse(<<>>, <<message>>)
    /\ pc' = "done"

\* serve, up to the first call of the action's function
Serve(req) ==
    /\ pc = "request"
    /\ request' = req
    /\ IF ~getRequiredEnv("SUPABASE_URL")
       THEN Respond(MissingEnv("SUPABASE_URL")) /\ UNCHANGED job
       ELSE IF req.action = "run_pipeline"
       THEN /\ job' = NewJob(1, now)
            /\ pc' = "discover"
            /\ UNCHANGED response
       ELSE IF req.action = "search"
       THEN /\ UNCHANGED job
            /\ IF req.query = <<>> THEN Respond("Missing query")
               ELSE IF ~getRequiredEnv("VOYAGE_API_KEY")
               THEN Respond(MissingEnv("VOYAGE_API_KEY"))
               ELSE pc' = "search_embed" /\ UNCHANGED response
       ELSE /\ Respond("Invalid action. Use 'run_pipeline' or 'search'.")
            /\ UNCHANGED job
    /\ UNCHANGED <<pdfIdx, allChunks, chunksBySource, groupIdx, embeddedChunks,
                   calls>>
    /\ UNCHANGED <<store, nextId, now, indexes, clients, lastWrite, upsertLog,
                   searchOut>>
    /\ UNCHANGED simVars
    /\ UNCHANGED <<env, voyage, queryEmbedding, issued, fnIn, fnOut>>

\* runSearch: the call of the embedding service for the query
SearchEmbed(outcome, vector) ==
    /\ pc = "search_embed"
    /\ calls' = Append(calls, [stage |-> "query_embed", outcome |-> outcome,
                               input |-> request.query[1]])
    /\ IF outcome = "ok"
       THEN /\ queryEmbedding' = vector
            /\ pc' = "search_query"
            /\ UNCHANGED response
       ELSE /\ Respond(ErrorMessage("query_embed", outcome))
            /\ UNCHANGED queryEmbedding
    /\ UNCHANGED <<job, pdfIdx, allChunks, chunksBySource, groupIdx,
                   embeddedChunks>>
    /\ UNCHANGED <<store, nextId, now, indexes, clients, lastWrite, upsertLog,
                   searchOut>>
    /\ UNCHANGED simVars
    /\ UNCHANGED <<env, voyage, request, issued, fnIn, fnOut>>

\* runSearch: the search call to the store function and the answer built
\* from its results
SearchQuery(outcome) ==
    LET
        \* request.limit || 10
        OrLimit(opt) ==
            IF opt = <<>> \/ opt[1] = 0 THEN DEFAULT_LIMIT ELSE opt[1]
        \* request.min_score || 0.7
        OrMinScore(opt) ==
            IF opt = <<>> \/ opt[1].n = 0 THEN DEFAULT_MIN_SCORE ELSE opt[1]
    IN
    /\ pc = "search_query"
    /\ Called("search", outcome)
    /\ IF outcome = "ok"
       THEN LET req == [query_embedding |-> queryEmbedding,
                        file_numbers    |-> request.file_numbers,
                        limit           |-> <<OrLimit(request.limit)>>,
                        min_score       |-> <<OrMinScore(request.min_score)>>]
                out == handleSearch(store, req)
            IN  /\ searchOut' = [called    |-> TRUE,
                                 req       |-> req,
                                 allDocs   |-> out.allDocs,
                                 limit     |-> out.limit,
                                 min_score |-> out.min_score,
                                 results   |-> out.results,
                                 total_found |-> out.total_found]
                /\ response' = createResponse(
                       [search_results |-> out.results,
                        message        |-> out.total_found], <<>>)
                /\ pc' = "done"
       ELSE /\ Respond(ErrorMessage("search", outcome))
            /\ UNCHANGED searchOut
    /\ UNCHANGED <<job, pdfIdx, allChunks, chunksBySource, groupIdx,
                   embeddedChunks>>
    /\ UNCHANGED <<store, nextId, now, indexes, clients, lastWrite, upsertLog>>
    /\ UNCHANGED simVars
    /\ UNCHANGED svcVars

InitServe ==
    LET
        \* the collection before the request: two chunks stored by an earlier run
        SeededStore == handleUpsert(<<>>, 1, 0, <<D1, D3>>)
    IN
    LET
        \* deployments: every variable set, or exactly one missing
        Deployments == {Credentials} \cup {Credentials \ {c} : c \in Credentials}
    IN
    /\ job = <<>>
    /\ pc = "request"
    /\ pdfIdx = 0
    /\ allChunks = <<>>
    /\ chunksBySource = <<>>
    /\ groupIdx = 0
    /\ embeddedChunks = <<>>
    /\ calls = <<>>
    /\ response = NoResponse
    /\ store = SeededStore.store
    /\ nextId = SeededStore.nextId
    /\ now = SeededStore.now
    /\ indexes = [c \in {COLLECTION_NAME, COLLECTION} |-> {}]
    /\ clients = [c \in Clients |-> IdleClient]
    /\ lastWrite = <<>>
    /\ upsertLog = <<>>
    /\ searchOut = [called |-> FALSE]
    /\ InitSim
    /\ env \in Deployments
    /\ voyage = IdleVoyage
    /\ request = <<>>
    /\ queryEmbedding = <<>>
    /\ issued = 0
    /\ fnIn = <<>>
    /\ fnOut = <<>>

\* a function answers "ok" only if it ran, and writes only if it ran
NextServe ==
    LET
        \* bodies POSTed to the entry point; query is <<>> when absent
        OrchRequests ==
            [action : {"search"}, query : {<<>>, <<"q">>},
             file_numbers : Filters, limit : Limits, min_score : MinScores]
            \cup [action : {"run_pipeline", "other"}, query : {<<>>},
                  file_numbers : {{}}, limit : {<<>>}, min_score : {<<>>}]
    IN
    \/ \E req \in OrchRequests : Serve(req)
    \/ \E outcome \in Outcomes, vector \in Queries :
           SearchEmbed(outcome, vector)
    \/ \E outcome \in Outcomes :
           (outcome = "ok" => HandlerRuns("search")) /\ SearchQuery(outcome)
    \/ \E outcome \in Outcomes, pdfs \in PdfLists :
           Discover(outcome, pdfs)
    \/ \E outcome \in Outcomes, k \in 0..MaxChunks :
           (outcome = "ok" => HandlerRuns("parse")) /\ ParsePdf(outcome, k)
    \/ \E outcome \in Outcomes :
           (outcome = "ok" => HandlerRuns("embed")) /\ EmbedGroup(outcome)
    \/ \E outcome \in Outcomes :
           \E applied \in (IF outcome \in {"reject", "bad_json"}
                               /\ HandlerRuns("upsert")
                            THEN BOOLEAN
                            ELSE {outcome = "ok"}) :
               /\ (outcome = "ok" => HandlerRuns("upsert"))
               /\ UpsertCall(outcome, applied)

SpecServe == InitServe /\ [][NextServe]_vars

-----------------------------------------------------------------------------
(* quantizeEmbedding applied to a vector, to its double and to its shift   *)

Quantize(variant) ==
    LET
        \* the vector itself, the vector times two, the vector plus one
        Variant ==
            [i \in 1..Len(fnIn) |->
                IF variant = "double" THEN 2 * fnIn[i]
                ELSE IF variant = "shift" THEN fnIn[i] + 1
                ELSE fnIn[i]]
    IN
    /\ fnOut = <<>>
    /\ fnOut' = [variant |-> variant,
                 input   |-> Variant,
                 result  |-> quantizeEmbedding(Variant)]
    /\ UNCHANGED pipeVars
    /\ UNCHANGED <<store, nextId, now, indexes, clients, lastWrite, upsertLog,
                   searchOut>>
    /\ UNCHANGED simVars
    /\ UNCHANGED <<env, voyage, request, queryEmbedding, issued, fnIn>>

InitQuantize ==
    LET
        \* the vectors quantized
        Embeddings ==
            UNION {[1..n -> -MaxValue..MaxValue] : n \in 1..MaxComponents}
    IN
    /\ InitPipe /\ InitStore /\ InitSim
    /\ env = Credentials
    /\ voyage = IdleVoyage
    /\ request = <<>>
    /\ queryEmbedding = <<>>
    /\ issued = 0
    /\ fnIn \in Embeddings
    /\ fnOut = <<>>

NextQuantize ==
    \E variant \in {"same", "double", "shift"} : Quantize(variant)

SpecQuantize == InitQuantize /\ [][NextQuantize]_vars

-----------------------------------------------------------------------------
(* transformPipelineResponse. A text is a sequence of numbers: 0 is one     *)
(* whitespace character (a newline in markdown), n > 0 is a run of n        *)
(* characters that are not whitespace                                      *)

\* number of characters of a text
RECURSIVE CharLen(_)
CharLen(text) ==
    IF text = <<>> THEN 0
    ELSE (IF Head(text) = 0 THEN 1 ELSE Head(text)) + CharLen(Tail(text))

\* String.prototype.trim
Trim(text) ==
    LET solid == {i \in 1..Len(text) : text[i] # 0}
    IN  IF solid = {} THEN <<>>
        ELSE SubSeq(text, CHOOSE i \in solid : \A j \in solid : i <= j,
                          CHOOSE i \in solid : \A j \in solid : i >= j)

\* cleanText, for contents without page footers; replace(/\s+/g, " ") drops
\* a whitespace character that follows another
cleanText(content) ==
    Trim(SelectSeq([i \in 1..Len(content) |->
                       IF content[i] = 0 /\ i > 1 /\ content[i - 1] = 0 THEN -1
                       ELSE content[i]],
                   LAMBDA t : t # -1))

\* text.split(/\n\n+/) from position i on, piece being the part collected
\* since the last separator and next the position after the newlines that
\* start at i
RECURSIVE SplitParagraphs(_, _, _)
SplitParagraphs(text, i, piece) ==
    LET next == CHOOSE j \in i..Len(text) + 1 :
                    /\ \A k \in i..j - 1 : text[k] = 0
                    /\ j = Len(text) + 1 \/ text[j] # 0
    IN  IF i > Len(text) THEN <<piece>>
        ELSE IF next - i >= 2
        THEN <<piece>> \o SplitParagraphs(text, next, <<>>)
        ELSE SplitParagraphs(text, i + 1, Append(piece, text[i]))

\* a || b for strings and arrays held as <<>> (absent) or <<value>>: the empty
\* string is falsy, an empty array is not
TruthyText(opt) == opt # <<>> /\ opt[1] # <<>>

\* createChunkFromBlock(block, index)
createChunkFromBlock(block, index) ==
    [text        |-> cleanText(IF TruthyText(block.content)
                               THEN block.content[1] ELSE <<>>),
     page_number |-> IF block.bbox # <<>> /\ block.bbox[1].page # 0
                     THEN block.bbox[1].page ELSE 1,
     bbox        |-> IF block.bbox # <<>>
                     THEN [left   |-> block.bbox[1].left,
                           top    |-> block.bbox[1].top,
                           width  |-> IF block.bbox[1].width = 0 THEN 612
                                      ELSE block.bbox[1].width,
                           height |-> IF block.bbox[1].height = 0 THEN 792
                                      ELSE block.bbox[1].height]
                     ELSE [left |-> 0, top |-> 0, width |-> 612,
                           height |-> 792],
     chunk_index |-> index]

\* createChunkFromText(text, index)
createChunkFromText(text, index) ==
    [text        |-> cleanText(text),
     page_number |-> 1,
     bbox        |-> [left |-> 0, top |-> 0, width |-> 612, height |-> 792],
     chunk_index |-> index]

\* chunks.push(createChunkFromText(text, chunkIndex++)) without the increment
PushText_mut(st, text) ==
    [chunks     |-> Append(st.chunks, createChunkFromText(text, st.chunkIndex)),
     chunkIndex |-> st.chunkIndex]

\* chunks.push(createChunkFromText(text, chunkIndex++))
PushText(st, text) ==
    [chunks     |-> Append(st.chunks, createChunkFromText(text, st.chunkIndex)),
     chunkIndex |-> st.chunkIndex + 1]

\* for (const block of blocks)
\*     chunks.push(createChunkFromBlock(block, chunkIndex++))
RECURSIVE PushBlocks(_, _)
PushBlocks(st, blocks) ==
    IF blocks = <<>> THEN st
    ELSE PushBlocks([chunks     |-> Append(st.chunks,
                                           createChunkFromBlock(Head(blocks),
                                                                st.chunkIndex)),
                     chunkIndex |-> st.chunkIndex + 1],
                    Tail(blocks))

\* Format 1: for (const chunk of response.result.chunks), the blocks of the
\* chunk and then its content when it has no block
RECURSIVE NestedChunks(_, _)
NestedChunks(st, chunks) ==
    IF chunks = <<>> THEN st
    ELSE NestedChunks(IF TruthyText(Head(chunks).content)
                         /\ Head(chunks).blocks = <<>>
                      THEN PushText(PushBlocks(st, Head(chunks).blocks),
                                    Head(chunks).content[1])
                      ELSE PushBlocks(st, Head(chunks).blocks),
                      Tail(chunks))

\* Format 3: for (const chunk of response.chunks); JSON.stringify(chunk) of a
\* chunk without content or text is a text of 2 characters
RECURSIVE TopChunks(_, _)
TopChunks(st, chunks) ==
    IF chunks = <<>> THEN st
    ELSE TopChunks(PushText(st, IF TruthyText(Head(chunks).content)
                                THEN Head(chunks).content[1]
                                ELSE <<2>>),
                   Tail(chunks))

\* Format 4 with paragraphs of the threshold's length kept
RECURSIVE Paragraphs_mut(_, _)
Paragraphs_mut(st, paragraphs) ==
    IF paragraphs = <<>> THEN st
    ELSE Paragraphs_mut(IF CharLen(Trim(Head(paragraphs))) >= NOISE_THRESHOLD
                        THEN PushText(st, Trim(Head(paragraphs)))
                        ELSE st,
                        Tail(paragraphs))

\* Format 4: for (const para of paragraphs)
RECURSIVE Paragraphs(_, _)
Paragraphs(st, paragraphs) ==
    IF paragraphs = <<>> THEN st
    ELSE Paragraphs(IF CharLen(Trim(Head(paragraphs))) > NOISE_THRESHOLD
                    THEN PushText(st, Trim(Head(paragraphs)))
                    ELSE st,
                    Tail(paragraphs))

\* transformPipelineResponse with Format 4 as an if of its own, not an else
transformPipelineResponse_mut(data) ==
    LET start == [chunks |-> <<>>, chunkIndex |-> 0]
        text  == IF TruthyText(data.markdown) THEN data.markdown[1]
                 ELSE data.text[1]
        found == IF data.rchunks # <<>> /\ Len(data.rchunks[1]) > 0
                 THEN NestedChunks(start, data.rchunks[1])
                 ELSE IF data.rblocks # <<>> /\ Len(data.rblocks[1]) > 0
                 THEN PushBlocks(start, data.rblocks[1])
                 ELSE IF data.chunks # <<>>
                 THEN TopChunks(start, data.chunks[1])
                 ELSE start
    IN  (IF TruthyText(data.markdown) \/ TruthyText(data.text)
         THEN Paragraphs(found, SplitParagraphs(text, 1, <<>>))
         ELSE found).chunks

\* transformPipelineResponse(response, sourceUrl, fileNumber); markdown stands
\* for data.result.markdown, text for data.text
transformPipelineResponse(data) ==
    LET start == [chunks |-> <<>>, chunkIndex |-> 0]
        text  == IF TruthyText(data.markdown) THEN data.markdown[1]
                 ELSE data.text[1]
    IN  (IF data.rchunks # <<>> /\ Len(data.rchunks[1]) > 0
         THEN NestedChunks(start, data.rchunks[1])
         ELSE IF data.rblocks # <<>> /\ Len(data.rblocks[1]) > 0
         THEN PushBlocks(start, data.rblocks[1])
         ELSE IF data.chunks # <<>>
         THEN TopChunks(start, data.chunks[1])
         ELSE IF TruthyText(data.markdown) \/ TruthyText(data.text)
         THEN Paragraphs(start, SplitParagraphs(text, 1, <<>>))
         ELSE start).chunks

\* the responses given to the normalizer. Blocks of nested chunks: B1 with
\* a bounding box, B2 with a whitespace run and no box; blocks of the flat
\* list: F1 with content, F2 without; top-level chunks: T1 with content, T2
\* without. An array is absent, <<>>, or present, <<array>>. A markdown text
\* is made of newlines and of runs of 5, 11 and 249 characters. The
\* responses hold several shapes at once, or markdown only
Responses ==
    LET B1 == [content |-> <<<<21>>>>,
               bbox    |-> <<[left |-> 1, top |-> 2, width |-> 0, height |-> 3,
                              page |-> 2]>>]
        B2 == [content |-> <<<<22, 0, 0, 22>>>>, bbox |-> <<>>]
        F1 == [content |-> <<<<61>>>>, bbox |-> <<>>]
        F2 == [content |-> <<>>, bbox |-> <<>>]
        T1 == [content |-> <<<<41>>>>]
        T2 == [content |-> <<>>]
        Optional(values) == {<<>>} \cup {<<v>> : v \in values}
        NestedLists ==
            {<<>>,
             <<[blocks |-> <<>>, content |-> <<>>]>>,
             <<[blocks |-> <<B1>>, content |-> <<>>]>>,
             <<[blocks |-> <<>>, content |-> <<(<<31>>)>>]>>,
             <<[blocks |-> <<B1, B2>>, content |-> <<(<<31>>)>>]>>,
             <<[blocks |-> <<B1>>, content |-> <<>>],
               [blocks |-> <<>>, content |-> <<(<<31>>)>>]>>}
        MarkdownTexts ==
            UNION {[1..n -> {0, 5, 11, 249}] : n \in 0..MaxTokens}
    IN  [rchunks  : Optional(NestedLists),
         rblocks  : Optional({<<>>, <<F1>>, <<F2, F1>>}),
         chunks   : Optional({<<>>, <<T1>>, <<T1, T2>>}),
         markdown : Optional({<<>>, <<5>>, <<249, 0, 0, 249>>}),
         text     : Optional({<<11>>})]
        \cup [rchunks : {<<>>}, rblocks : {<<>>}, chunks : {<<>>},
              markdown : Optional(MarkdownTexts), text : {<<>>}]

Normalize ==
    /\ fnOut = <<>>
    /\ fnOut' = <<transformPipelineResponse(fnIn)>>
    /\ UNCHANGED pipeVars
    /\ UNCHANGED <<store, nextId, now, indexes, clients, lastWrite, upsertLog,
                   searchOut>>
    /\ UNCHANGED simVars
    /\ UNCHANGED <<env, voyage, request, queryEmbedding, issued, fnIn>>

InitNormalize ==
    /\ InitPipe /\ InitStore /\ InitSim
    /\ env = Credentials
    /\ voyage = IdleVoyage
    /\ request = <<>>
    /\ queryEmbedding = <<>>
    /\ issued = 0
    /\ fnIn \in Responses
    /\ fnOut = <<>>

SpecNormalize == InitNormalize /\ [][Normalize]_vars

-----------------------------------------------------------------------------
(* The text of a search query. A text is the sequence of its words (the    *)
(* maximal runs of word characters) and of the single characters between   *)
(* them, so that a whole-word match of a term is a match of its tokens     *)

\* query.toLowerCase(), token by token
LowerText(text) ==
    LET Lower(tok) ==
            IF tok = "RTO" THEN "rto"
            ELSE IF tok = "C" THEN "c"
            ELSE IF tok = "CEQA" THEN "ceqa"
            ELSE IF tok = "Zoning" THEN "zoning"
            ELSE tok
    IN  [i \in 1..Len(text) |-> Lower(text[i])]

\* zoningTerms, in the order of the object's entries: the entries rto, rto-c
\* and ceqa of the table
ZoningTerms ==
    << [term      |-> <<"rto">>,
        expansion |-> <<"RTO", " ", "Residential", " ", "Transit", " ",
                        "Oriented">>],
       [term      |-> <<"rto", "-", "c">>,
        expansion |-> <<"RTO", "-", "C", " ", "Residential", " ", "Transit",
                        " ", "Oriented", " ", "Commercial">>],
       [term      |-> <<"ceqa">>,
        expansion |-> <<"California", " ", "Environmental", " ", "Quality",
                        " ", "Act", " ", "CEQA">>] >>

\* enhancedQuery.includes(term): the term stands in the text at some
\* position, letter for letter
Includes(text, term) ==
    \E i \in 1..Len(text) :
        /\ i + Len(term) - 1 <= Len(text)
        /\ \A k \in 1..Len(term) : text[i + k - 1] = term[k]

\* the regular expression \bterm\b with flag i matches at position i: the
\* term stands there whatever the case of the letters
MatchesAt(text, term, i) ==
    /\ i + Len(term) - 1 <= Len(text)
    /\ \A k \in 1..Len(term) :
           LowerText(text)[i + k - 1] = LowerText(term)[k]

\* enhancedQuery.replace(new RegExp(`\\b${term}\\b`, "gi"), expansion): the
\* matches are taken from the left and do not overlap
RECURSIVE ReplaceAll(_, _, _, _)
ReplaceAll(text, term, expansion, i) ==
    IF i > Len(text) THEN <<>>
    ELSE IF MatchesAt(text, term, i)
    THEN expansion \o ReplaceAll(text, term, expansion, i + Len(term))
    ELSE <<text[i]>> \o ReplaceAll(text, term, expansion, i + 1)

\* the loop over the entries of zoningTerms, from entry k on
RECURSIVE ExpandTerms(_, _)
ExpandTerms(text, k) ==
    IF k > Len(ZoningTerms) THEN text
    ELSE IF Includes(text, ZoningTerms[k].term)
    THEN ExpandTerms(ReplaceAll(text, ZoningTerms[k].term,
                                ZoningTerms[k].expansion, 1), k + 1)
    ELSE ExpandTerms(text, k + 1)

\* enhanceQuery(query)
enhanceQuery(query) == ExpandTerms(LowerText(query), 1)

\* the texts of the queries
QueryTexts ==
    {<<"rto">>, <<"RTO">>, <<"rto", "-", "c">>, <<"RTO", "-", "C">>,
     <<"Zoning", " ", "rto">>, <<"zoning">>, <<"CEQA">>}

\* generateQueryEmbedding of the embedding module, up to its fetch: the input
\* it sends for a query
GenerateQueryEmbedding(query) ==
    /\ fnIn = <<>>
    /\ fnIn' = <<query>>
    /\ fnOut' = <<enhanceQuery(query)>>
    /\ UNCHANGED pipeVars
    /\ UNCHANGED <<store, nextId, now, indexes, clients, lastWrite, upsertLog,
                   searchOut>>
    /\ UNCHANGED simVars
    /\ UNCHANGED <<env, voyage, request, queryEmbedding, issued>>

\* a search request served by the entry point, and the embedding module's
\* function applied to a query
NextQuery ==
    LET
        \* search requests carrying these texts
        QueryRequests ==
            [action : {"search"}, query : {<<q>> : q \in QueryTexts},
             file_numbers : {{}}, limit : {<<>>}, min_score : {<<>>}]
    IN
    \/ \E req \in QueryRequests : Serve(req)
    \/ \E outcome \in Outcomes, vector \in {<<1, 0>>} :
           SearchEmbed(outcome, vector)
    \/ \E outcome \in Outcomes :
           (outcome = "ok" => HandlerRuns("search")) /\ SearchQuery(outcome)
    \/ \E query \in QueryTexts : GenerateQueryEmbedding(query)

SpecQuery == InitServe /\ [][NextQuery]_vars

-----------------------------------------------------------------------------
(* The voyage-embed function serving the orchestrator's call for one group *)

\* the chunks of one batch as pushed to the function's embeddedChunks
EmbedBatch(batch, file_number, source_url) ==
    [i \in 1..Len(batch) |->
        [text        |-> batch[i].text,
         page_number |-> batch[i].page_number,
         bbox        |-> batch[i].bbox,
         chunk_index |-> batch[i].chunk_index,
         embedding   |-> EmbeddingOf(batch[i].text),
         file_number |-> file_number,
         source_url  |-> source_url]]

\* the function receives the orchestrator's request for group groupIdx and
\* splits its chunks into batches; the log of the batches embedded so far in
\* the run is kept across invocations
VoyageStart ==
    /\ pc = "embed"
    /\ voyage.phase = "idle" \/ (voyage.phase = "answered" /\ voyage.group # groupIdx)
    /\ LET group == chunksBySource[groupIdx]
       IN  voyage' = [phase       |-> "running",
                      group       |-> groupIdx,
                      file_number |-> group.key[1],
                      source_url  |-> group.key[2],
                      batches     |-> chunkArray(group.chunks, VOYAGE_BATCH_SIZE),
                      embedded    |-> <<>>,
                      attempt     |-> 0,
                      ok          |-> FALSE,
                      log         |-> IF voyage.phase = "idle" THEN <<>>
                                      ELSE voyage.log,
                      gaveUp      |-> voyage.phase # "idle" /\ voyage.gaveUp]
    /\ UNCHANGED pipeVars
    /\ UNCHANGED <<store, nextId, now, indexes, clients, lastWrite, upsertLog,
                   searchOut>>
    /\ UNCHANGED simVars
    /\ UNCHANGED <<env, request, queryEmbedding, issued, fnIn, fnOut>>

\* VoyageAttempt starting over after the last attempt instead of throwing
VoyageAttempt_mut(succeeds) ==
    /\ voyage.phase = "running"
    /\ IF succeeds
       THEN LET batch == EmbedBatch(Head(voyage.batches), voyage.file_number,
                                    voyage.source_url)
                rest  == Tail(voyage.batches)
            IN  voyage' = [voyage EXCEPT
                              !.embedded = @ \o batch,
                              !.log      = @ \o batch,
                              !.batches  = rest,
                              !.attempt  = 0,
                              !.phase    = IF rest = <<>> THEN "answered"
                                           ELSE "running",
                              !.ok       = rest = <<>>]
       ELSE IF voyage.attempt + 1 < maxRetries
       THEN voyage' = [voyage EXCEPT !.attempt = @ + 1]
       ELSE voyage' = [voyage EXCEPT !.attempt = 0]
    /\ UNCHANGED pipeVars
    /\ UNCHANGED <<store, nextId, now, indexes, clients, lastWrite, upsertLog,
                   searchOut>>
    /\ UNCHANGED simVars
    /\ UNCHANGED <<env, request, queryEmbedding, issued, fnIn, fnOut>>

\* one attempt of retryWithBackoff for the current batch: success embeds the
\* batch and moves on (answering 200 after the last), a failure is retried
\* until maxRetries attempts are used and then thrown to the function's
\* catch block, which answers 500
VoyageAttempt(succeeds) ==
    /\ voyage.phase = "running"
    /\ IF succeeds
       THEN LET batch == EmbedBatch(Head(voyage.batches), voyage.file_number,
                                    voyage.source_url)
                rest  == Tail(voyage.batches)
            IN  voyage' = [voyage EXCEPT
                              !.embedded = @ \o batch,
                              !.log      = @ \o batch,
                              !.batches  = rest,
                              !.attempt  = 0,
                              !.phase    = IF rest = <<>> THEN "answered"
                                           ELSE "running",
                              !.ok       = rest = <<>>]
       ELSE IF voyage.attempt + 1 < maxRetries
       THEN voyage' = [voyage EXCEPT !.attempt = @ + 1]
       ELSE voyage' = [voyage EXCEPT !.phase = "answered", !.ok = FALSE,
                                     !.gaveUp = TRUE]
    /\ UNCHANGED pipeVars
    /\ UNCHANGED <<store, nextId, now, indexes, clients, lastWrite, upsertLog,
                   searchOut>>
    /\ UNCHANGED simVars
    /\ UNCHANGED <<env, request, queryEmbedding, issued, fnIn, fnOut>>

\* the orchestrator reads the function's answer for the group
VoyageAnswer ==
    /\ voyage.phase = "answered"
    /\ voyage.group = groupIdx
    /\ EmbedGroup(IF voyage.ok THEN "ok" ELSE "not_ok")

\* a run whose calls are all answered, followed into the embedding function
NextEmbed ==
    LET
        \* chunk counts of an extraction answer: below and above one embedding batch
        EmbedSizes == {1, VOYAGE_BATCH_SIZE + 1}
    IN
    \/ \E pdfs \in PdfLists : Discover("ok", pdfs)
    \/ \E k \in EmbedSizes : ParsePdf("ok", k)
    \/ VoyageStart
    \/ \E succeeds \in BOOLEAN : VoyageAttempt(succeeds)
    \/ VoyageAnswer
    \/ UpsertCall("ok", TRUE)

SpecEmbed == InitPipeline /\ [][NextEmbed]_vars

\* a run followed into the embedding function, any call of which may fail
NextLive ==
    \/ \E outcome \in Outcomes, pdfs \in PdfLists :
           Discover(outcome, pdfs)
    \/ \E outcome \in Outcomes, k \in 0..MaxChunks :
           ParsePdf(outcome, k)
    \/ VoyageStart
    \/ \E succeeds \in BOOLEAN : VoyageAttempt(succeeds)
    \/ VoyageAnswer
    \/ \E outcome \in Outcomes \ {"ok", "not_ok"} :
           voyage.phase # "running" /\ EmbedGroup(outcome)
    \/ \E outcome \in Outcomes :
           \E applied \in (IF outcome \in {"reject", "bad_json"}
                            THEN BOOLEAN ELSE {TRUE}) :
               UpsertCall(outcome, applied)

\* every call that is awaited returns or fails, and every attempt of a
\* retried operation ends. All answers to the upsert call are possible at
\* the same await and each of them ends it, so that the fairness of one
\* answer stands for "the call is answered", by that answer or by another
SpecLive ==
    /\ InitPipeline
    /\ [][NextLive]_vars
    /\ WF_vars(\E outcome \in Outcomes, pdfs \in PdfLists :
                   Discover(outcome, pdfs))
    /\ WF_vars(\E outcome \in Outcomes, k \in 0..MaxChunks :
                   ParsePdf(outcome, k))
    /\ WF_vars(VoyageStart)
    /\ WF_vars(\E succeeds \in BOOLEAN : VoyageAttempt(succeeds))
    /\ WF_vars(VoyageAnswer)
    /\ WF_vars(UpsertCall("not_ok", TRUE))

-----------------------------------------------------------------------------
(* Runs in which a call is issued and answered in two steps: the fetch is  *)
(* sent, and the run waits at its await until the collaborator answers     *)

\* the run is suspended at the await of a fetch
InFlight == issued > Len(calls)

\* the fetch of the next call is sent
IssueCall ==
    /\ pc \in {"discover", "parse", "embed", "upsert"}
    /\ ~InFlight
    /\ issued' = issued + 1
    /\ UNCHANGED pipeVars
    /\ UNCHANGED <<store, nextId, now, indexes, clients, lastWrite, upsertLog,
                   searchOut>>
    /\ UNCHANGED simVars
    /\ UNCHANGED <<env, voyage, request, queryEmbedding, fnIn, fnOut>>

\* the await resumes only when the collaborator answers or the fetch rejects
NextWait ==
    \/ IssueCall
    \/ InFlight /\ NextPipeline

\* the orchestrator always goes on to send its next fetch; nothing obliges a
\* collaborator to answer
SpecWait == InitPipeline /\ [][NextWait]_vars /\ WF_vars(IssueCall)

-----------------------------------------------------------------------------
(* The voyage-embed handler applied to one request whose batches all        *)
(* succeed, the service answering the items of a batch in an order of its   *)
(* own                                                                      *)

\* prepareTextForEmbedding(chunk): the parts joined by " "
prepareTextForEmbedding(chunk) ==
    (IF chunk.metadata.section # <<>>
     THEN "[Section: " \o chunk.metadata.section[1] \o "] " ELSE "")
    \o "[Page " \o ToString(chunk.page_number) \o "] "
    \o (IF chunk.metadata.table_detected
        THEN "[Contains tabular data] " ELSE "")
    \o chunk.text

\* the vector the service computes for a text, written as the text it encodes
VectorOf(text) == <<"vector of", text>>

\* voyageResponse.data for the texts of one batch, the service listing the
\* items in the order sent, reversed or rotated
VoyageData(texts, order) ==
    LET ItemIndex(k) ==
            IF order = "sent" THEN k - 1
            ELSE IF order = "reversed" THEN Len(texts) - k
            ELSE k % Len(texts)
    IN  [k \in 1..Len(texts) |->
            [index     |-> ItemIndex(k),
             embedding |-> VectorOf(texts[ItemIndex(k) + 1])]]

\* the mapping loop taking the chunk in the place of the item in the answer
MapEmbeddings_mut(batch, data, file_number, source_url) ==
    [k \in 1..Len(data) |->
        [text        |-> batch[k].text,
         page_number |-> batch[k].page_number,
         bbox        |-> batch[k].bbox,
         chunk_index |-> batch[k].chunk_index,
         metadata    |-> batch[k].metadata,
         embedding   |-> data[k].embedding,
         file_number |-> file_number,
         source_url  |-> source_url]]

\* the mapping loop: {...batch[item.index], embedding, file_number, source_url}
MapEmbeddings(batch, data, file_number, source_url) ==
    [k \in 1..Len(data) |->
        [text        |-> batch[data[k].index + 1].text,
         page_number |-> batch[data[k].index + 1].page_number,
         bbox        |-> batch[data[k].index + 1].bbox,
         chunk_index |-> batch[data[k].index + 1].chunk_index,
         metadata    |-> batch[data[k].index + 1].metadata,
         embedding   |-> data[k].embedding,
         file_number |-> file_number,
         source_url  |-> source_url]]

\* result.chunks of the handler's answer: the loop over the batches
VoyageEmbed(body, order) ==
    LET batches == chunkArray(body.chunks, VOYAGE_BATCH_SIZE)
        Embedded(batch) ==
            MapEmbeddings(batch,
                          VoyageData([i \in 1..Len(batch) |->
                                         prepareTextForEmbedding(batch[i])],
                                     order),
                          body.file_number, body.source_url)
        RECURSIVE EmbedBatches(_)
        EmbedBatches(b) ==
            IF b > Len(batches) THEN <<>>
            ELSE Embedded(batches[b]) \o EmbedBatches(b + 1)
    IN  EmbedBatches(1)

\* requests of up to MaxPosted chunks, and one of more than a batch. The
\* orchestrator posts the fields of its chunks except file_number and
\* source_url; there are two chunks to a page, and the metadata of a chunk
\* holds nothing detected, or a section and a table
EmbedRequests ==
    LET ChunkMetadata ==
            {[section |-> <<>>, table_detected |-> FALSE],
             [section |-> <<"NOISE">>, table_detected |-> TRUE]}
        PostedChunks(texts, metadata) ==
            [i \in 1..Len(texts) |->
                [text        |-> texts[i],
                 page_number |-> 1 + ((i - 1) \div 2),
                 bbox        |-> IF i % 2 = 1 THEN "bbox_a" ELSE "bbox_b",
                 chunk_index |-> i - 1,
                 metadata    |-> metadata[i]]]
    IN  {[chunks      |-> PostedChunks(tm[1], tm[2]),
          file_number |-> "250700",
          source_url  |-> "https://sf.gov/a.pdf"] :
            tm \in UNION {[1..n -> {"old", "new"}] \X [1..n -> ChunkMetadata] :
                              n \in 1..MaxPosted}}
        \cup {[chunks      |-> PostedChunks(
                                  [i \in 1..VOYAGE_BATCH_SIZE + 2 |-> "old"],
                                  [i \in 1..VOYAGE_BATCH_SIZE + 2 |->
                                      [section |-> <<>>,
                                       table_detected |-> FALSE]]),
               file_number |-> "250700",
               source_url  |-> "https://sf.gov/a.pdf"]}

EmbedRequest ==
    /\ fnOut = <<>>
    /\ fnOut' = <<VoyageEmbed(fnIn.body, fnIn.order)>>
    /\ UNCHANGED pipeVars
    /\ UNCHANGED <<store, nextId, now, indexes, clients, lastWrite, upsertLog,
                   searchOut>>
    /\ UNCHANGED simVars
    /\ UNCHANGED <<env, voyage, request, queryEmbedding, issued, fnIn>>

InitMap ==
    /\ InitPipe /\ InitStore /\ InitSim
    /\ env = Credentials
    /\ voyage = IdleVoyage
    /\ request = <<>>
    /\ queryEmbedding = <<>>
    /\ issued = 0
    /\ fnIn \in [body : EmbedRequests, order : {"sent", "reversed", "rotated"}]
    /\ fnOut = <<>>

SpecMap == InitMap /\ [][EmbedRequest]_vars

-----------------------------------------------------------------------------
(* A document processed again: each run upserts the chunks it extracted     *)

SourceUrls == {"u1", "u2"}

\* one more run over a source that yields n chunks
Reprocess(url, n) ==
    LET
        \* the documents a run posts for one source: chunk i of run r has a
        \* text, a page and a box of its own
        RunDocuments(run) ==
            [i \in 1..n |->
                [text        |-> [run |-> run, chunk |-> i - 1],
                 embedding   |-> <<run, i>>,
                 file_number |-> IF url = "u1" THEN "f1" ELSE "f2",
                 source_url  |-> url,
                 page_number |-> run + i,
                 bbox        |-> [left |-> run, top |-> i - 1, width |-> 612,
                                  height |-> 792],
                 chunk_index |-> i - 1]]
    IN
    /\ Len(upsertLog) < MaxClock
    /\ UpsertRequest(RunDocuments(Len(upsertLog) + 1))

NextReprocess == \E url \in SourceUrls, n \in 1..MaxPosted : Reprocess(url, n)

SpecReprocess == InitPipeline /\ [][NextReprocess]_vars

-----------------------------------------------------------------------------
(* retryWithBackoff(operation, maxRetries, baseDelayMs), step by step.      *)
(* fnIn holds the arguments; fnOut holds the loop variable attempt,         *)
(* lastError (<<>> is null, <<k>> the error of attempt k), where the call   *)
(* stands, and the log of the operation's invocations and of the timers set *)

\* the step with the timer set after every failed attempt
RetryStep_mut(succeeds) ==
    /\ fnOut.at = "loop"
    /\ IF fnOut.attempt >= fnIn.maxRetries
       THEN /\ ~succeeds
            /\ fnOut' = [fnOut EXCEPT !.at = "thrown"]
       ELSE LET called == Append(fnOut.log,
                                 [op |-> "call", attempt |-> fnOut.attempt,
                                  ok |-> succeeds])
            IN  IF succeeds
                THEN fnOut' = [fnOut EXCEPT !.at = "returned", !.log = called]
                ELSE fnOut' = [fnOut EXCEPT
                         !.lastError = <<fnOut.attempt>>,
                         !.at  = "sleep",
                         !.log = Append(called,
                                     [op |-> "wait",
                                      ms |-> fnIn.baseDelayMs
                                                 * 2 ^ fnOut.attempt])]
    /\ UNCHANGED pipeVars
    /\ UNCHANGED <<store, nextId, now, indexes, clients, lastWrite, upsertLog,
                   searchOut>>
    /\ UNCHANGED simVars
    /\ UNCHANGED <<env, voyage, request, queryEmbedding, issued, fnIn>>

\* one turn of the for loop up to its next await: the loop ends and lastError
\* is thrown, or the operation is invoked and its result returned, or its
\* error kept and, unless the attempt was the last, a timer set
RetryStep(succeeds) ==
    /\ fnOut.at = "loop"
    /\ IF fnOut.attempt >= fnIn.maxRetries
       THEN /\ ~succeeds
            /\ fnOut' = [fnOut EXCEPT !.at = "thrown"]
       ELSE LET called == Append(fnOut.log,
                                 [op |-> "call", attempt |-> fnOut.attempt,
                                  ok |-> succeeds])
            IN  IF succeeds
                THEN fnOut' = [fnOut EXCEPT !.at = "returned", !.log = called]
                ELSE IF fnOut.attempt < fnIn.maxRetries - 1
                THEN fnOut' = [fnOut EXCEPT
                         !.lastError = <<fnOut.attempt>>,
                         !.at  = "sleep",
                         !.log = Append(called,
                                     [op |-> "wait",
                                      ms |-> fnIn.baseDelayMs
                                                 * 2 ^ fnOut.attempt])]
                ELSE fnOut' = [fnOut EXCEPT
                         !.lastError = <<fnOut.attempt>>,
                         !.attempt   = fnOut.attempt + 1,
                         !.log       = called]
    /\ UNCHANGED pipeVars
    /\ UNCHANGED <<store, nextId, now, indexes, clients, lastWrite, upsertLog,
                   searchOut>>
    /\ UNCHANGED simVars
    /\ UNCHANGED <<env, voyage, request, queryEmbedding, issued, fnIn>>

\* the timer fires: attempt++
RetryTimer ==
    /\ fnOut.at = "sleep"
    /\ fnOut' = [fnOut EXCEPT !.at = "loop", !.attempt = fnOut.attempt + 1]
    /\ UNCHANGED pipeVars
    /\ UNCHANGED <<store, nextId, now, indexes, clients, lastWrite, upsertLog,
                   searchOut>>
    /\ UNCHANGED simVars
    /\ UNCHANGED <<env, voyage, request, queryEmbedding, issued, fnIn>>

\* the function is entered with maxRetries up to MaxAttempts (the default
\* is 3) and a base delay of 1, 250 or 1000 ms (the default)
InitRetry ==
    /\ InitPipe /\ InitStore /\ InitSim
    /\ env = Credentials
    /\ voyage = IdleVoyage
    /\ request = <<>>
    /\ queryEmbedding = <<>>
    /\ issued = 0
    /\ fnIn \in [maxRetries : 0..MaxAttempts, baseDelayMs : {1, 250, 1000}]
    /\ fnOut = [at |-> "loop", attempt |-> 0, lastError |-> <<>>, log |-> <<>>]

NextRetry ==
    \/ \E succeeds \in BOOLEAN : RetryStep(succeeds)
    \/ RetryTimer

SpecRetry == InitRetry /\ [][NextRetry]_vars

-----------------------------------------------------------------------------
(* Discovery: the request the orchestrator sends and the list the           *)
(* discovery function answers with                                          *)

\* the discovery handler on the matters the Legistar API returned. A matter
\* carries its MatterFile, whether one of the search terms occurs in its
\* title, name or type, and its attachments (none when the attachments
\* request fails); an attachment carries its hyperlink and whether the
\* hyperlink or the file name contains ".pdf". body.file_numbers is not read
discoverPdfs(body, allMatters) ==
    LET limit   == IF body.limit = 0 THEN DISCOVER_LIMIT ELSE body.limit
        matters == SelectSeq(allMatters, LAMBDA m : m.matches)
        RECURSIVE Attachments(_, _, _)
        Attachments(matter, attachments, discoveredPdfs) ==
            IF attachments = <<>> \/ Len(discoveredPdfs) >= limit
            THEN discoveredPdfs
            ELSE Attachments(matter, Tail(attachments),
                     IF Head(attachments).pdf
                     THEN Append(discoveredPdfs,
                              [url         |-> Head(attachments).url,
                               file_number |-> matter.MatterFile])
                     ELSE discoveredPdfs)
        RECURSIVE Matters(_, _)
        Matters(rest, discoveredPdfs) ==
            IF rest = <<>> \/ Len(discoveredPdfs) >= limit
            THEN discoveredPdfs
            ELSE Matters(Tail(rest),
                     Attachments(Head(rest), Head(rest).attachments,
                                 discoveredPdfs))
    IN  [discovered_pdfs  |-> Matters(matters, <<>>),
         matters_searched |-> Len(matters)]

\* step 1 of runPipelineSync: pdfLimit = request.pdf_limit || 3, the
\* discovery request, and job.discovered_pdfs, each of which step 2 parses
RunDiscovery ==
    /\ fnOut = <<>>
    /\ LET pdfLimit == IF fnIn.pdf_limit = <<>> \/ fnIn.pdf_limit = <<0>>
                       THEN PDF_LIMIT ELSE fnIn.pdf_limit[1]
           body     == [file_numbers |-> fnIn.file_numbers,
                        limit        |-> pdfLimit]
       IN  fnOut' = [body |-> body,
                     discovered_pdfs |->
                         discoverPdfs(body, fnIn.matters).discovered_pdfs]
    /\ UNCHANGED pipeVars
    /\ UNCHANGED <<store, nextId, now, indexes, clients, lastWrite, upsertLog,
                   searchOut>>
    /\ UNCHANGED simVars
    /\ UNCHANGED <<env, voyage, request, queryEmbedding, issued, fnIn>>

\* a pipeline request (file_numbers, pdf_limit) and up to MaxPdfs matters of
\* the API's answer, of file number f1 or f2
InitDiscovery ==
    /\ InitPipe /\ InitStore /\ InitSim
    /\ env = Credentials
    /\ voyage = IdleVoyage
    /\ request = <<>>
    /\ queryEmbedding = <<>>
    /\ issued = 0
    /\ LET Lists  == {<<>>,
                      <<[url |-> "a.pdf", pdf |-> TRUE]>>,
                      <<[url |-> "a.doc", pdf |-> FALSE],
                        [url |-> "b.pdf", pdf |-> TRUE]>>,
                      <<[url |-> "a.pdf", pdf |-> TRUE],
                        [url |-> "b.pdf", pdf |-> TRUE]>>}
           Matter == [MatterFile : {"f1", "f2"}, matches : BOOLEAN,
                      attachments : Lists]
       IN  fnIn \in [file_numbers : {<<>>, <<"f1">>},
                     pdf_limit    : {<<>>} \cup {<<n>> : n \in 0..MaxLimit},
                     matters      : UNION {[1..n -> Matter] : n \in 0..MaxPdfs}]
    /\ fnOut = <<>>

SpecDiscovery == InitDiscovery /\ [][RunDiscovery]_vars

-----------------------------------------------------------------------------
(* getMongoClient and the module variable cachedClient. fnOut holds         *)
(* cachedClient (<<>> for null), the state of the client's connect(), and   *)
(* for each caller where it stands and the state of the connect() of the    *)
(* client it was handed                                                     *)

\* getMongoClient entered by caller c, up to its return or its await
GetClient(c) ==
    /\ fnOut.callers[c].at = "idle"
    /\ IF fnOut.cachedClient # <<>>
       THEN fnOut' = [fnOut EXCEPT !.callers[c] =
                         [at |-> "returned", connect |-> fnOut.connect]]
       ELSE IF ~getRequiredEnv("MONGODB_URI")
       THEN fnOut' = [fnOut EXCEPT !.callers[c] =
                         [at |-> "threw", connect |-> "none"]]
       ELSE fnOut' = [fnOut EXCEPT !.cachedClient = <<1>>,
                                   !.connect = "pending",
                                   !.callers[c] =
                         [at |-> "await", connect |-> "pending"]]
    /\ UNCHANGED pipeVars
    /\ UNCHANGED <<store, nextId, now, indexes, clients, lastWrite, upsertLog,
                   searchOut>>
    /\ UNCHANGED simVars
    /\ UNCHANGED <<env, voyage, request, queryEmbedding, issued, fnIn>>

\* await cachedClient.connect() settles: the caller that awaits it returns
\* cachedClient, or the rejection leaves getMongoClient as its error
ConnectSettles(ok) ==
    /\ fnOut.connect = "pending"
    /\ fnOut' = [fnOut EXCEPT
           !.connect = IF ok THEN "connected" ELSE "failed",
           !.callers = [c \in DOMAIN fnOut.callers |->
               IF fnOut.callers[c].at # "await" THEN fnOut.callers[c]
               ELSE IF ok THEN [at |-> "returned", connect |-> "connected"]
               ELSE [at |-> "threw", connect |-> "failed"]]]
    /\ UNCHANGED pipeVars
    /\ UNCHANGED <<store, nextId, now, indexes, clients, lastWrite, upsertLog,
                   searchOut>>
    /\ UNCHANGED simVars
    /\ UNCHANGED <<env, voyage, request, queryEmbedding, issued, fnIn>>

\* a fresh isolate: cachedClient = null; MONGODB_URI is set or not
InitClient ==
    /\ InitPipe /\ InitStore /\ InitSim
    /\ env \in {Credentials, Credentials \ {"MONGODB_URI"}}
    /\ voyage = IdleVoyage
    /\ request = <<>>
    /\ queryEmbedding = <<>>
    /\ issued = 0
    /\ fnIn = <<>>
    /\ fnOut = [cachedClient |-> <<>>, connect |-> "none",
                callers |-> [c \in 1..MaxCallers |->
                                [at |-> "idle", connect |-> "none"]]]

NextClient ==
    \/ \E c \in 1..MaxCallers : GetClient(c)
    \/ \E ok \in BOOLEAN : ConnectSettles(ok)

SpecClient == InitClient /\ [][NextClient]_vars

-----------------------------------------------------------------------------
(* The local processing script and the pipeline's upserts writing into the  *)
(* same collection, sf_zoning.document_chunks                              *)

\* one iteration of the script's storing loop: updateOne({_id}, {$set: doc},
\* {upsert: true}) with _id = file_number_chunk_index. That string is written
\* as a number below zero, a different one for each file number and index,
\* so that it equals no _id the server generates
ScriptWrite(chunk) ==
    LET id  == -(10 * (IF chunk.file_number = "f1" THEN 1 ELSE 2)
                 + chunk.chunk_index + 1)
        doc == [_id         |-> id,
                text        |-> chunk.text,
                page_number |-> chunk.page_number,
                bbox        |-> chunk.bbox,
                chunk_index |-> chunk.chunk_index,
                file_number |-> chunk.file_number,
                source_url  |-> chunk.source_url,
                embedding   |-> chunk.embedding,
                created_at  |-> now]
        hit == {i \in 1..Len(store) : store[i]._id = id}
    IN  /\ now < MaxClock
        /\ store' = IF hit = {} THEN Append(store, doc)
                    ELSE [i \in 1..Len(store) |->
                             IF i \in hit THEN doc ELSE store[i]]
        /\ now' = now + 1
        /\ upsertLog' = Append(upsertLog,
               LogEntry(<<chunk>>, StoredKeys(store),
                        IF hit = {} THEN 1 ELSE 0, IF hit = {} THEN 0 ELSE 1))
        /\ UNCHANGED <<nextId, indexes, clients, lastWrite, searchOut>>
        /\ UNCHANGED pipeVars
        /\ UNCHANGED simVars
        /\ UNCHANGED svcVars

\* the script and the pipeline each store chunks of two documents that share
\* the file number f1
NextShared ==
    \E chunk \in {Doc("u1", 0, "old", <<1, 2>>, "f1"),
                   Doc("u1", 1, "new", <<2, 1>>, "f1"),
                   Doc("u2", 0, "new", <<3, 1>>, "f1"),
                   Doc("u2", 1, "old", <<1, 3>>, "f1")} :
        \/ ScriptWrite(chunk)
        \/ now < MaxClock /\ UpsertRequest(<<chunk>>)

SpecShared == InitPipeline /\ [][NextShared]_vars

-----------------------------------------------------------------------------
(* Claims about the orchestrator                                           *)

NonTerminal == {"discovering", "parsing", "embedding", "upserting"}

ForwardSteps == {<<"discovering", "parsing">>, <<"discovering", "completed">>,
                 <<"parsing", "embedding">>, <<"parsing", "completed">>,
                 <<"embedding", "upserting">>, <<"upserting", "completed">>}

\* C1: within one run the status only moves forward along discovering ->
\* parsing -> embedding -> upserting -> completed, skipping stages only by the
\* two short-circuits to completed; it never goes back, and failed is entered
\* only from a non-terminal status.
C1_StatusForwardOnly ==
    [][\/ job'.status = job.status
       \/ <<job.status, job'.status>> \in ForwardSteps
       \/ job'.status = "failed" /\ job.status \in NonTerminal]_vars

C1_Witness ==
    /\ job.status = "completed"
    /\ job.upserted_chunks > 0
    /\ Len(calls) >= 4

\* the call issued in this step threw: the fetch rejected, the body could not
\* be read, or the code threw on a non-2xx answer (discovery and upsert)
CallThrew ==
    /\ Len(calls') = Len(calls) + 1
    /\ LET call == calls'[Len(calls')]
       IN  \/ call.outcome \in {"reject", "bad_json"}
           \/ call.outcome = "not_ok" /\ call.stage \in {"discover", "upsert"}

\* C2: when a stage call throws, the run ends at once with status failed, the
\* thrown error's message in job.error, completed_at set, and the four
\* counters exactly as they were before the failure.
C2_ThrowFailsRunKeepingCounters ==
    [][CallThrew =>
          LET call == calls'[Len(calls')]
          IN  /\ job'.status = "failed"
              /\ job'.error = <<ErrorMessage(call.stage, call.outcome)>>
              /\ job'.completed_at # <<>>
              /\ job'.discovered_pdfs = job.discovered_pdfs
              /\ job'.parsed_chunks = job.parsed_chunks
              /\ job'.embedded_chunks = job.embedded_chunks
              /\ job'.upserted_chunks = job.upserted_chunks
              /\ pc' = "done"
              /\ response'.sent /\ response'.data.job = job']_vars

C2_Witness ==
    /\ job.status = "failed"
    /\ job.parsed_chunks > 0
    /\ job.embedded_chunks > 0
    /\ calls[Len(calls)].stage = "embed"
    /\ calls[Len(calls)].outcome = "reject"

CallsOf(stage) == {i \in 1..Len(calls) : calls[i].stage = stage}

\* discovery answered and listed no document
ZeroDocuments ==
    /\ Len(calls) >= 1
    /\ calls[1].stage = "discover"
    /\ calls[1].outcome = "ok"
    /\ Len(job.discovered_pdfs) = 0

\* C3: when discovery returns zero documents the run is completed right after
\* the discovery call: no extraction, embedding or upsert call is made, all
\* counters are zero, there is no error and the response reports success.
C3_ZeroDocumentsCompletes ==
    ZeroDocuments =>
        /\ job.status = "completed"
        /\ pc = "done"
        /\ Len(calls) = 1
        /\ job.parsed_chunks = 0
        /\ job.embedded_chunks = 0
        /\ job.upserted_chunks = 0
        /\ job.error = <<>>
        /\ response.sent /\ response.success /\ response.error = <<>>

C3_Witness == ZeroDocuments /\ response.sent

\* every discovered document was extracted and no chunk came out of any
ZeroChunks ==
    /\ Len(job.discovered_pdfs) > 0
    /\ Cardinality(CallsOf("parse")) = Len(job.discovered_pdfs)
    /\ \A i \in CallsOf("parse") : calls[i].outcome \in {"ok", "not_ok"}
    /\ allChunks = <<>>

\* C4: when documents were discovered but extraction yields no chunk at all,
\* the run is completed right after the last extraction call, without error:
\* embedding and upserting are never entered, no embedding or upsert call is
\* made, and the counters show discovered > 0 with parsed_chunks = 0.
C4_ZeroChunksCompletes ==
    ZeroChunks =>
        /\ job.status = "completed"
        /\ pc = "done"
        /\ CallsOf("embed") = {} /\ CallsOf("upsert") = {}
        /\ job.parsed_chunks = 0
        /\ job.embedded_chunks = 0
        /\ job.upserted_chunks = 0
        /\ job.error = <<>>
        /\ response.sent /\ response.success

C4_Witness ==
    /\ ZeroChunks
    /\ Len(job.discovered_pdfs) = 2
    /\ \E i \in CallsOf("parse") : calls[i].outcome = "ok"
    /\ \E i \in CallsOf("parse") : calls[i].outcome = "not_ok"

-----------------------------------------------------------------------------
(* Claims about the store                                                  *)

KeyCount(st, k) == Cardinality({i \in 1..Len(st) : Key(st[i]) = k})

PayloadKeys(documents) == {Key(documents[i]) : i \in 1..Len(documents)}

\* calls i and i+1 of the log carry the same non-empty payload
SameTwice(i) ==
    /\ i + 1 <= Len(upsertLog)
    /\ upsertLog[i].documents = upsertLog[i + 1].documents
    /\ upsertLog[i].documents # <<>>

\* C5: upserting the same payload twice leaves exactly one record per key of
\* the payload; the first call reports the keys that were not stored yet as
\* inserted, the second reports inserted 0 and modified >= 1.
C5_IdempotentUpsert ==
    \A i \in 1..Len(upsertLog) :
        SameTwice(i) =>
            LET keys == PayloadKeys(upsertLog[i].documents)
            IN  /\ upsertLog[i].upserted_count
                       = Cardinality(keys \ upsertLog[i].before)
                /\ upsertLog[i + 1].upserted_count = 0
                /\ upsertLog[i + 1].modified_count >= 1
                /\ (i + 1 = Len(upsertLog) =>
                       \A k \in keys : KeyCount(store, k) = 1)

C5_Witness ==
    /\ SameTwice(1)
    /\ Len(upsertLog) = 2
    /\ upsertLog[1].upserted_count = 1
    /\ upsertLog[2].modified_count = 1

\* C6: no two records of the store share (source_url, chunk_index), whatever
\* upsert requests were served, concurrent ones included.
C6_NoDuplicateKeys ==
    \A i \in 1..Len(store) : \A j \in 1..Len(store) :
        i # j => Key(store[i]) # Key(store[j])

\* C7: once concurrent upserts of a key are over, the record stored for the
\* key holds the text, page_number, bbox, file_number and embedding of the
\* write applied last.
C7_LastWriteWins ==
    Busy = {} =>
        \A i \in 1..Len(store) :
            LET r == store[i]
                w == lastWrite[Key(r)]
            IN  /\ r.text = w.text
                /\ r.page_number = w.page_number
                /\ r.bbox = w.bbox
                /\ r.file_number = w.file_number
                /\ r.embedding = w.embedding

-----------------------------------------------------------------------------
(* Claims about search                                                     *)

\* similarity of candidate i of the last search
CandScore(i) ==
    cosineSim(searchOut.req.query_embedding, searchOut.allDocs[i].embedding)

\* the candidates whose similarity is >= min_score
Qualifying ==
    {i \in 1..Len(searchOut.allDocs) :
        ScoreGE(CandScore(i), Frac(searchOut.min_score))}

\* position among the candidates of result k
CandPos(k) ==
    CHOOSE i \in 1..Len(searchOut.allDocs) :
        searchOut.allDocs[i]._id = searchOut.results[k].document._id

\* candidate i ranks before candidate j: higher similarity, or the same
\* similarity and earlier in storage order
RanksBefore(i, j) ==
    \/ ScoreCmp(CandScore(i), CandScore(j)) > 0
    \/ ScoreCmp(CandScore(i), CandScore(j)) = 0 /\ i < j

\* C8: search returns exactly the first `limit` of the candidates with
\* similarity >= min_score, ordered by similarity descending, equal
\* similarities in storage order: no returned score is below min_score and
\* no omitted candidate ranks before a returned one.
C8_SearchTopLimitRanked ==
    searchOut.called =>
        LET n == Len(searchOut.results)
        IN  /\ n = Min2(searchOut.limit, Cardinality(Qualifying))
            /\ \A k \in 1..n :
                   /\ \E i \in 1..Len(searchOut.allDocs) :
                          searchOut.allDocs[i]._id = searchOut.results[k].document._id
                   /\ CandPos(k) \in Qualifying
                   /\ searchOut.results[k].score = CandScore(CandPos(k))
            /\ \A k \in 1..n : \A l \in 1..n :
                   k < l => RanksBefore(CandPos(k), CandPos(l))
            /\ \A i \in Qualifying :
                   (\A k \in 1..n : CandPos(k) # i) =>
                       \A k \in 1..n : RanksBefore(CandPos(k), i)

\* a search that moved a later record ahead of an earlier one, and cut off
\* at the limit a candidate that scores the same as the last one returned
C8_Witness ==
    /\ searchOut.called
    /\ Len(searchOut.results) = 2
    /\ Cardinality(Qualifying) = 3
    /\ CandPos(1) > CandPos(2)
    /\ \E i \in Qualifying :
           /\ i > CandPos(2)
           /\ ScoreCmp(CandScore(i), searchOut.results[2].score) = 0

\* C9: cosineSim returns exactly 0 (not NaN) when a vector is empty, the
\* lengths differ, or a magnitude is zero.
C9_DegenerateSimilarityIsZero ==
    simOut # <<>> =>
        LET a == simIn[1]
            b == simIn[2]
        IN  (\/ Len(a) = 0 \/ Len(b) = 0
             \/ Len(a) # Len(b)
             \/ Dot(a, a) = 0 \/ Dot(b, b) = 0)
            => (~simOut[1].nan /\ simOut[1].dot = 0)

\* the last search had a query of zero magnitude and a positive threshold
ZeroQuerySearch ==
    /\ searchOut.called
    /\ Dot(searchOut.req.query_embedding, searchOut.req.query_embedding) = 0
    /\ searchOut.min_score.n > 0

\* C10: a search whose query vector has zero magnitude returns nothing, for
\* every store and every positive min_score.
C10_ZeroQueryFindsNothing ==
    ZeroQuerySearch => searchOut.results = <<>> /\ searchOut.total_found = 0

C10_Witness ==
    /\ ZeroQuerySearch
    /\ \E i \in 1..Len(searchOut.allDocs) :
           Len(searchOut.allDocs[i].embedding) = Len(searchOut.req.query_embedding)
    /\ \E i \in 1..Len(searchOut.allDocs) :
           Len(searchOut.allDocs[i].embedding) # Len(searchOut.req.query_embedding)

-----------------------------------------------------------------------------
(* Claims about the candidates of a search                                 *)

\* positions of the stored records the filter of the last search admits
Eligible ==
    {i \in 1..Len(store) :
        /\ "embedding" \in DOMAIN store[i]
        /\ (searchOut.req.file_numbers # {} =>
               store[i].file_number \in searchOut.req.file_numbers)}

\* the k-th eligible position
EligibleAt(k) ==
    CHOOSE i \in Eligible : Cardinality({j \in Eligible : j < i}) = k - 1

\* C11: the candidates a search scores are, in storage order, the stored
\* records that have an embedding and pass a non-empty file-number filter, at
\* most 500 of them; every result is one of these records.
C11_CandidatesFiltered ==
    searchOut.called =>
        /\ Len(searchOut.allDocs) = Min2(Cardinality(Eligible), FIND_LIMIT)
        /\ \A k \in 1..Len(searchOut.allDocs) :
               searchOut.allDocs[k] = store[EligibleAt(k)]
        /\ \A k \in 1..Len(searchOut.results) :
               \E i \in Eligible :
                   store[i]._id = searchOut.results[k].document._id

\* a filtered search that returned a record while the collection also held a
\* record without embedding inside the filter and an embedded one outside it
C11_Witness ==
    /\ searchOut.called
    /\ searchOut.req.file_numbers = {"f1"}
    /\ searchOut.results # <<>>
    /\ \E i \in 1..Len(store) :
           "embedding" \notin DOMAIN store[i] /\ store[i].file_number = "f1"
    /\ \E i \in 1..Len(store) :
           "embedding" \in DOMAIN store[i] /\ store[i].file_number = "f2"

-----------------------------------------------------------------------------
(* Claims about the entry point                                            *)

\* the search results the entry point answered with (<<>> when none)
AnsweredResults ==
    IF response.sent /\ response.data # <<>>
       /\ "search_results" \in DOMAIN response.data
    THEN response.data.search_results
    ELSE <<>>

\* C12: no document returned by a search carries the stored vector: the
\* embedding of every document in the store function's results and in the
\* entry point's search_results is empty.
C12_NoEmbeddingReturned ==
    /\ searchOut.called =>
           \A k \in 1..Len(searchOut.results) :
               searchOut.results[k].document.embedding = <<>>
    /\ \A k \in 1..Len(AnsweredResults) :
           AnsweredResults[k].document.embedding = <<>>

\* the entry point answered a search with a document whose stored record
\* holds a vector
C12_Witness ==
    /\ AnsweredResults # <<>>
    /\ \E i \in 1..Len(store) :
           /\ store[i]._id = AnsweredResults[1].document._id
           /\ store[i].embedding # <<>>

-----------------------------------------------------------------------------
(* Claims about partial embedding                                          *)

\* C13: when an embedding batch is given up after its retries, the run still
\* ends completed without error, and every chunk of every batch that was
\* embedded, earlier batches of the same document included, is counted in
\* embedded_chunks and stored.
C13_OnlyFailedBatchMissing ==
    (pc = "done" /\ voyage.phase = "answered" /\ voyage.gaveUp) =>
        /\ job.status = "completed"
        /\ job.error = <<>>
        /\ job.embedded_chunks = Len(voyage.log)
        /\ \A i \in 1..Len(voyage.log) :
               \E j \in 1..Len(store) : Key(store[j]) = Key(voyage.log[i])

-----------------------------------------------------------------------------
(* Claims about failing calls                                              *)

\* the last call the run issued
LastCall == calls[Len(calls)]

\* C14: a non-2xx answer is retried by the call site that issued the call
\* before the call is given up on: a run that failed on a non-2xx answer of a
\* call issued that call more than once.
C14_NonOkRetried ==
    (pc = "done" /\ job.status = "failed" /\ LastCall.outcome = "not_ok") =>
        Cardinality(CallsOf(LastCall.stage)) >= 2

\* the calls of the stages whose failure is to fail the run
StageCalls ==
    {i \in 1..Len(calls) : calls[i].stage \in {"discover", "parse", "upsert"}}

\* C15: a run in which a discovery, extraction or storage call was answered
\* non-2xx ends failed with the error recorded in job.error, and is not
\* reported as completed.
C15_StageFailureFailsRun ==
    (pc = "done" /\ \E i \in StageCalls : calls[i].outcome = "not_ok") =>
        /\ job.status = "failed"
        /\ job.error # <<>>
        /\ ~response.success

-----------------------------------------------------------------------------
(* Claims about missing credentials                                        *)

\* the credentials of the external services
ExternalCredentials == {"REDUCTO_API_KEY", "VOYAGE_API_KEY", "MONGODB_URI"}

\* a well-formed run_pipeline or search request was received
ServedRequest ==
    /\ request # <<>>
    /\ \/ request.action = "run_pipeline"
       \/ request.action = "search" /\ request.query # <<>>

\* C16: with an external credential missing, a run_pipeline or search
\* request makes no call at all and is answered with the error naming the
\* missing variable, never as a success.
C16_MissingCredentialFailsFast ==
    (ServedRequest /\ ExternalCredentials \ env # {}) =>
        /\ calls = <<>>
        /\ response.sent =>
               /\ ~response.success
               /\ \E key \in ExternalCredentials \ env :
                      response.error = <<MissingEnv(key)>>

-----------------------------------------------------------------------------
(* Claims about the job counters                                           *)

\* C17: no step of a run decreases the number of discovered documents,
\* parsed_chunks, embedded_chunks or upserted_chunks.
C17_CountersNeverDecrease ==
    [][/\ Len(job'.discovered_pdfs) >= Len(job.discovered_pdfs)
       /\ job'.parsed_chunks >= job.parsed_chunks
       /\ job'.embedded_chunks >= job.embedded_chunks
       /\ job'.upserted_chunks >= job.upserted_chunks]_vars

\* a run that ended after each of the four counters had risen, the last
\* call having failed
C17_Witness ==
    /\ pc = "done"
    /\ job.status = "failed"
    /\ Len(job.discovered_pdfs) > 1
    /\ job.parsed_chunks > 1
    /\ job.embedded_chunks > 1

\* C18: the counters are current whenever the run is suspended: after each
\* extraction parsed_chunks is the number of chunks collected, after each
\* embedding batch embedded_chunks is the number of chunks embedded so far,
\* and after the storage batches upserted_chunks is the number of chunks
\* stored.
C18_CountersCurrent ==
    /\ job.parsed_chunks = Len(allChunks)
    /\ (voyage.phase = "running" /\ ~voyage.gaveUp) =>
           job.embedded_chunks = Len(voyage.log)
    /\ (pc = "done" /\ job.status = "completed" /\ CallsOf("upsert") # {}) =>
           job.upserted_chunks = Len(store)

-----------------------------------------------------------------------------
(* Claims about the answer of the entry point                              *)

\* the answer carries the job of the run
AnswersJob ==
    /\ response.data # <<>>
    /\ "job" \in DOMAIN response.data
    /\ response.data.job = job

\* success is true exactly for a completed job, and false with the error set
\* exactly for a failed one
SuccessFollowsJob ==
    /\ response.success <=> job.status = "completed"
    /\ (~response.success /\ response.error # <<>>) <=> job.status = "failed"

\* the answer is well formed: success with data, or failure with the error
WellFormed ==
    /\ response.success <=> response.error = <<>>
    /\ response.success => response.data # <<>>

-----------------------------------------------------------------------------
(* Claims about the order of the calls                                     *)

\* position of a stage in the run
StageRank(stage) ==
    IF stage = "discover" THEN 1
    ELSE IF stage = "parse" THEN 2
    ELSE IF stage = "embed" THEN 3
    ELSE 4

\* the document groups of the chunks collected
SourceKeys == {SourceKey(allChunks[i]) : i \in 1..Len(allChunks)}

-----------------------------------------------------------------------------
(* Claims about waiting                                                    *)

\* C21: no call is waited for indefinitely: a call in flight is always
\* ended, by its answer or by the abort of a timeout.
C21_NoCallWaitsForever == InFlight ~> ~InFlight

-----------------------------------------------------------------------------
(* Claims about the query text                                             *)

\* the length of the longest table term matching at position i, 0 when none
LongestTermAt(text, i) ==
    LET lens == {Len(ZoningTerms[k].term) : k \in
                    {k \in 1..Len(ZoningTerms) :
                        MatchesAt(text, ZoningTerms[k].term, i)}}
    IN  IF lens = {} THEN 0 ELSE CHOOSE l \in lens : \A m \in lens : m <= l

\* the expansion of the table term of this length matching at position i
ExpansionAt(text, i, l) ==
    LET k == CHOOSE k \in 1..Len(ZoningTerms) :
                 /\ Len(ZoningTerms[k].term) = l
                 /\ MatchesAt(text, ZoningTerms[k].term, i)
    IN  ZoningTerms[k].expansion

\* the query with every abbreviation occurring as a whole word, in any
\* letter case, replaced by its expansion and every other token kept
RECURSIVE Expanded(_, _)
Expanded(text, i) ==
    IF i > Len(text) THEN <<>>
    ELSE IF LongestTermAt(text, i) > 0
    THEN ExpansionAt(text, i, LongestTermAt(text, i))
         \o Expanded(text, i + LongestTermAt(text, i))
    ELSE <<text[i]>> \o Expanded(text, i + 1)

\* C22: the text the search action sends to the embedding service is the
\* query with every table abbreviation occurring as a whole word, in any
\* letter case, replaced by its expansion.
C22_QueryExpandedBeforeEmbedding ==
    \A i \in CallsOf("query_embed") :
        calls[i].input = Expanded(request.query[1], 1)

-----------------------------------------------------------------------------
(* Claims about quantization                                               *)

\* the positions of the smallest and of the largest components
MinAt(v) == {i \in 1..Len(v) : \A j \in 1..Len(v) : v[i] <= v[j]}
MaxAt(v) == {i \in 1..Len(v) : \A j \in 1..Len(v) : v[i] >= v[j]}

\* C23: for a non-empty vector quantizeEmbedding returns a vector of the same
\* length whose components are integers in [-128, 127]; the smallest
\* component maps to -128 and, when the components are not all equal, the
\* largest maps to 127.
C23_QuantizedInRange ==
    fnOut # <<>> =>
        /\ Len(fnOut.result) = Len(fnOut.input)
        /\ \A i \in 1..Len(fnOut.result) : fnOut.result[i] \in -128..127
        /\ \A i \in MinAt(fnOut.input) : fnOut.result[i] = -128
        /\ MinAt(fnOut.input) # MaxAt(fnOut.input) =>
               \A i \in MaxAt(fnOut.input) : fnOut.result[i] = 127

\* a vector of three different components, and a vector of equal components,
\* were quantized
C23_Witness ==
    /\ fnOut # <<>>
    /\ Len(fnOut.input) = 3
    /\ \/ fnOut.input[1] < fnOut.input[2] /\ fnOut.input[2] < fnOut.input[3]
       \/ fnOut.input[1] = fnOut.input[2] /\ fnOut.input[2] = fnOut.input[3]
    /\ fnOut.result[1] = -128

\* C24 as stated: the double of a vector, and its shift by a constant,
\* quantize differently from the vector.
C24_RangeDistinguished ==
    (fnOut # <<>> /\ fnOut.variant # "same") =>
        fnOut.result # quantizeEmbedding(fnIn)

\* C24 amended: the double of a vector, and its shift by a constant, quantize
\* to the same vector as the vector itself.
C24_RangeNotDistinguished ==
    fnOut # <<>> => fnOut.result = quantizeEmbedding(fnIn)

\* the double of a vector of different components was quantized
C24_Witness ==
    /\ fnOut # <<>>
    /\ fnOut.variant = "double"
    /\ fnOut.input # fnIn
    /\ MinAt(fnIn) # MaxAt(fnIn)

-----------------------------------------------------------------------------
(* Claims about the normalizer (SpecNormalize)                              *)

\* the chunks transformPipelineResponse returned
Emitted == fnOut[1]

\* an array of the response that is present and not empty
Populated(opt) == opt # <<>> /\ opt[1] # <<>>

\* the strategy a chunk's text can come from: the contents of the four
\* shapes share no character run
Origin(chunk) ==
    IF chunk.text = <<>> THEN "blocks"
    ELSE IF Head(chunk.text) \in {21, 22, 31} THEN "nested"
    ELSE IF Head(chunk.text) = 61 THEN "blocks"
    ELSE IF Head(chunk.text) \in {41, 2} THEN "top"
    ELSE "text"

Origins == {Origin(Emitted[i]) : i \in DOMAIN Emitted}

\* C25: the chunks of one response all come from one strategy, the strategies
\* being tried in the order nested chunks, flat blocks, flat chunks, markdown
\* or text: a strategy is used only when no shape before it is populated, and
\* with a populated chunks array and markdown both present no chunk comes
\* from the markdown
C25_OneStrategyInOrder ==
    fnOut # <<>> =>
        /\ Cardinality(Origins) <= 1
        /\ "blocks" \in Origins => ~Populated(fnIn.rchunks)
        /\ "top" \in Origins =>
               ~Populated(fnIn.rchunks) /\ ~Populated(fnIn.rblocks)
        /\ "text" \in Origins =>
               /\ ~Populated(fnIn.rchunks) /\ ~Populated(fnIn.rblocks)
               /\ ~Populated(fnIn.chunks)
        /\ (Populated(fnIn.rchunks) \/ Populated(fnIn.chunks))
               /\ TruthyText(fnIn.markdown)
           => "text" \notin Origins

\* a response with a populated flat chunk list and a markdown text whose
\* paragraphs pass the threshold has been normalized to the chunks of the list
C25_Witness ==
    /\ fnOut # <<>>
    /\ fnIn.rchunks = <<>> /\ fnIn.rblocks = <<>>
    /\ fnIn.chunks # <<>> /\ Len(fnIn.chunks[1]) = 2
    /\ fnIn.markdown = <<(<<249, 0, 0, 249>>)>>
    /\ Len(Emitted) = 2
    /\ Origins = {"top"}

\* the chunks each strategy yields when it is applied alone to the response
Start == [chunks |-> <<>>, chunkIndex |-> 0]

YieldNested ==
    IF fnIn.rchunks = <<>> THEN <<>>
    ELSE NestedChunks(Start, fnIn.rchunks[1]).chunks

YieldBlocks ==
    IF fnIn.rblocks = <<>> THEN <<>>
    ELSE PushBlocks(Start, fnIn.rblocks[1]).chunks

YieldTop ==
    IF fnIn.chunks = <<>> THEN <<>>
    ELSE TopChunks(Start, fnIn.chunks[1]).chunks

YieldText ==
    IF TruthyText(fnIn.markdown)
    THEN Paragraphs(Start, SplitParagraphs(fnIn.markdown[1], 1, <<>>)).chunks
    ELSE IF TruthyText(fnIn.text)
    THEN Paragraphs(Start, SplitParagraphs(fnIn.text[1], 1, <<>>)).chunks
    ELSE <<>>

\* C26: the chunks returned are those of the first strategy, in the order
\* nested chunks, flat blocks, flat chunks, markdown or text, that yields at
\* least one chunk; no chunk is returned only when no strategy yields any
C26_FirstYieldingStrategy ==
    fnOut # <<>> =>
        Emitted = (IF YieldNested # <<>> THEN YieldNested
                   ELSE IF YieldBlocks # <<>> THEN YieldBlocks
                   ELSE IF YieldTop # <<>> THEN YieldTop
                   ELSE YieldText)

\* the response holds markdown or text and none of the structured shapes
TextOnly ==
    /\ fnIn.rchunks = <<>> /\ fnIn.rblocks = <<>> /\ fnIn.chunks = <<>>
    /\ TruthyText(fnIn.markdown) \/ TruthyText(fnIn.text)

RawText ==
    IF TruthyText(fnIn.markdown) THEN fnIn.markdown[1] ELSE fnIn.text[1]

\* position i of the raw text is a newline of a blank-line separator: a
\* newline next to another newline
InSeparator(i) ==
    /\ RawText[i] = 0
    /\ \/ i > 1 /\ RawText[i - 1] = 0
       \/ i < Len(RawText) /\ RawText[i + 1] = 0

\* the paragraph starting at position i, without surrounding whitespace
ParagraphFrom(i) ==
    Trim(SubSeq(RawText, i,
                CHOOSE j \in i..Len(RawText) :
                    /\ \A k \in i..j : ~InSeparator(k)
                    /\ j = Len(RawText) \/ InSeparator(j + 1)))

\* the positions where a paragraph longer than the threshold starts
LongParagraphs ==
    {i \in 1..Len(RawText) :
        /\ ~InSeparator(i)
        /\ i = 1 \/ InSeparator(i - 1)
        /\ CharLen(ParagraphFrom(i)) > NOISE_THRESHOLD}

\* C27: from markdown or text alone the normalizer emits one chunk for each
\* paragraph between blank-line separators whose trimmed length exceeds the
\* noise threshold, in the order of the text; 500 characters with one
\* blank-line separator in the middle give exactly 2 chunks
C27_ChunkPerParagraph ==
    fnOut # <<>> /\ TextOnly =>
        /\ Len(Emitted) = Cardinality(LongParagraphs)
        /\ \A k \in 1..Len(Emitted) :
               \E i \in LongParagraphs :
                   /\ Cardinality({j \in LongParagraphs : j < i}) = k - 1
                   /\ Emitted[k].text = ParagraphFrom(i)
        /\ RawText = <<249, 0, 0, 249>> => Len(Emitted) = 2

\* markdown of 11 characters, a blank line, a paragraph of exactly 10
\* characters: one chunk, of the first paragraph
C27_Witness ==
    /\ fnOut # <<>>
    /\ TextOnly
    /\ RawText = <<11, 0, 0, 5, 5>>
    /\ Len(Emitted) = 1
    /\ Emitted[1].text = <<11>>

\* C30: the chunks emitted for one document carry the chunk_index values
\* 0, 1, ..., n - 1 in the order of emission, whichever strategy produced them
C30_IndexesContiguous ==
    fnOut # <<>> =>
        \A k \in 1..Len(Emitted) : Emitted[k].chunk_index = k - 1

\* two nested chunks, the first with a block and the second with content only,
\* have given two chunks
C30_Witness ==
    /\ fnOut # <<>>
    /\ Populated(fnIn.rchunks)
    /\ Len(fnIn.rchunks[1]) = 2
    /\ Len(Emitted) = 2
    /\ Emitted[1].text = <<21>> /\ Emitted[2].text = <<31>>
    /\ Emitted[2].chunk_index = 1

-----------------------------------------------------------------------------
(* Claims about the embedding batcher (SpecMap)                             *)

Posted == fnIn.body.chunks

Returned == fnOut[1]

\* C28: when every batch succeeds the batcher returns one embedded chunk for
\* each input chunk; a returned chunk carries the chunk_index, page_number,
\* bbox and unmodified text of the input chunk whose enriched text produced
\* its vector, and that chunk's file_number and source_url, also when the
\* service answers the items of a batch out of order; no stored text holds
\* the enrichment prefix
C28_VectorsMappedToTheirChunks ==
    fnOut # <<>> =>
        /\ Len(Returned) = Len(Posted)
        /\ \A i \in DOMAIN Posted :
               \E k \in DOMAIN Returned :
                   /\ Returned[k].chunk_index = Posted[i].chunk_index
                   /\ \A l \in DOMAIN Returned :
                          Returned[l].chunk_index = Posted[i].chunk_index => l = k
                   /\ Returned[k].page_number = Posted[i].page_number
                   /\ Returned[k].bbox = Posted[i].bbox
                   /\ Returned[k].text = Posted[i].text
                   /\ Returned[k].text # prepareTextForEmbedding(Posted[i])
                   /\ Returned[k].embedding
                          = VectorOf(prepareTextForEmbedding(Posted[i]))
                   /\ Returned[k].file_number = fnIn.body.file_number
                   /\ Returned[k].source_url = fnIn.body.source_url

\* a request of three chunks with different texts and metadata has been
\* answered with the vectors in reversed order
C28_Witness ==
    /\ fnOut # <<>>
    /\ fnIn.order = "reversed"
    /\ Len(Posted) = 3
    /\ Posted[1].text = "old" /\ Posted[3].text = "new"
    /\ Posted[1].metadata.table_detected /\ ~Posted[3].metadata.table_detected
    /\ Returned[1].chunk_index = 2
    /\ Returned[1].embedding = VectorOf("[Page 2] new")

-----------------------------------------------------------------------------
(* Claims about re-processing (SpecReprocess)                               *)

\* the runs over a source, as positions of the log
RunsOf(url) ==
    {r \in 1..Len(upsertLog) : upsertLog[r].documents[1].source_url = url}

LastRunOf(url) == CHOOSE r \in RunsOf(url) : \A q \in RunsOf(url) : q <= r

\* the last run over the source yielded fewer chunks than an earlier one
Shrunk(url) ==
    /\ RunsOf(url) # {}
    /\ \E q \in RunsOf(url) :
           Len(upsertLog[q].documents) > Len(upsertLog[LastRunOf(url)].documents)

\* C29: after a document is processed again and yields n' chunks where an
\* earlier run stored n > n', every record of the document with
\* chunk_index < n' holds the text, page_number and bbox of the new run's
\* chunk at that index, and the records with chunk_index n' to n - 1 that the
\* earlier run stored are still in the store
C29_ShrunkDocumentKeepsStaleTail ==
    \A url \in SourceUrls :
        Shrunk(url) =>
            LET new == upsertLog[LastRunOf(url)].documents
            IN  /\ \A i \in 1..Len(store) :
                       store[i].source_url = url
                       /\ store[i].chunk_index < Len(new)
                       => /\ store[i].text = new[store[i].chunk_index + 1].text
                          /\ store[i].page_number
                                 = new[store[i].chunk_index + 1].page_number
                          /\ store[i].bbox = new[store[i].chunk_index + 1].bbox
                /\ \A q \in RunsOf(url) :
                       \A k \in Len(new) + 1..Len(upsertLog[q].documents) :
                           \E i \in 1..Len(store) :
                               /\ store[i].source_url = url
                               /\ store[i].chunk_index = k - 1
                               /\ store[i].text.run < LastRunOf(url)
                               /\ store[i].bbox.left = store[i].text.run
                               /\ store[i].text.chunk = k - 1

\* a source first stored with three chunks has been stored again with one:
\* three of its records are in the store, the first holding the second run
C29_Witness ==
    /\ Len(upsertLog) = 2
    /\ RunsOf("u1") = {1, 2}
    /\ Len(upsertLog[1].documents) = 3
    /\ Len(upsertLog[2].documents) = 1
    /\ Len(store) = 3
    /\ \E i \in 1..Len(store) :
           store[i].chunk_index = 0 /\ store[i].text.run = 2
    /\ \E i \in 1..Len(store) :
           store[i].chunk_index = 2 /\ store[i].text.run = 1

-----------------------------------------------------------------------------
(* Claims about retryWithBackoff (SpecRetry)                                *)

\* the invocations of the operation, and the timers, in the log
Invocations == SelectSeq(fnOut.log, LAMBDA e : e.op = "call")

Timers == SelectSeq(fnOut.log, LAMBDA e : e.op = "wait")

\* C31: retryWithBackoff invokes the operation at most maxRetries times;
\* it returns the result of the first successful attempt and makes no further
\* attempt; after the k-th failed attempt (k from 0) it waits
\* baseDelayMs * 2^k before the next one; when every attempt has failed it
\* throws the error of the last attempt without waiting after it
C31_BoundedRetriesWithBackoff ==
    /\ Len(Invocations) <= fnIn.maxRetries
    /\ \A i \in 1..Len(Invocations) :
           /\ Invocations[i].attempt = i - 1
           /\ Invocations[i].ok => i = Len(Invocations) /\ fnOut.at = "returned"
    /\ fnOut.at = "returned" =>
           /\ Invocations # <<>>
           /\ fnOut.log[Len(fnOut.log)].op = "call"
           /\ fnOut.log[Len(fnOut.log)].ok
    /\ \A k \in 1..Len(Timers) :
           Timers[k].ms = fnIn.baseDelayMs * 2 ^ (k - 1)
    /\ \A p \in 1..Len(fnOut.log) :
           /\ fnOut.log[p].op = "wait" =>
                  /\ p > 1
                  /\ fnOut.log[p - 1].op = "call" /\ ~fnOut.log[p - 1].ok
           /\ fnOut.log[p].op = "call" /\ p > 1 => fnOut.log[p - 1].op = "wait"
    /\ fnOut.at = "thrown" =>
           /\ Len(Invocations) = fnIn.maxRetries
           /\ Len(Timers) = (IF fnIn.maxRetries = 0 THEN 0
                              ELSE fnIn.maxRetries - 1)
           /\ fnIn.maxRetries > 0 =>
                  /\ fnOut.lastError = <<fnIn.maxRetries - 1>>
                  /\ fnOut.log[Len(fnOut.log)].op = "call"

\* the default call has failed three times and thrown the third error, after
\* waits of 1000 and 2000 ms
C31_Witness ==
    /\ fnIn = [maxRetries |-> maxRetries, baseDelayMs |-> 1000]
    /\ fnOut.at = "thrown"
    /\ fnOut.lastError = <<2>>
    /\ Len(Invocations) = 3
    /\ Timers = <<[op |-> "wait", ms |-> 1000], [op |-> "wait", ms |-> 2000]>>

-----------------------------------------------------------------------------
(* Claims about the terminal state of the job (SpecPipeline)                *)

\* C32: in every state of a run completed_at is set exactly when the status
\* is completed or failed, and error is set exactly when the status is
\* failed; once the status is terminal no field of the job changes
C32_TerminalJobFrozen ==
    /\ [](/\ job.completed_at # <<>> <=> job.status \in {"completed", "failed"}
          /\ job.error # <<>> <=> job.status = "failed")
    /\ [][job.status \in {"completed", "failed"} => job' = job]_vars

\* a run has failed at the upsert call, after three answered calls
C32_Witness ==
    /\ job.status = "failed"
    /\ job.error # <<>>
    /\ job.completed_at # <<>>
    /\ Len(calls) >= 4
    /\ job.embedded_chunks > 0

-----------------------------------------------------------------------------
(* Claims about the stored count (SpecRerun)                                *)

\* what the store answers to the run's upsert request in the current state
UpsertAnswer == handleUpsert(store, nextId, now, embeddedChunks)

\* C33: when a run completes through the upserting stage, upserted_chunks is
\* the number of chunks the store wrote in the run, inserted plus modified,
\* also when the documents' chunks were already stored; it never exceeds
\* embedded_chunks, which never exceeds parsed_chunks
C33_UpsertedCountsWrites ==
    [][/\ pc = "upsert" /\ job'.status = "completed" =>
              job'.upserted_chunks
                  = UpsertAnswer.upserted_count + UpsertAnswer.modified_count
       /\ job'.upserted_chunks <= job'.embedded_chunks
       /\ job'.embedded_chunks <= job'.parsed_chunks]_vars

-----------------------------------------------------------------------------
(* Claims about the shared collection (SpecShared)                          *)

\* C34: the script and the upsert engine identify a stored chunk by the same
\* key: after any interleaving of their writes the collection holds at most
\* one record for a (source_url, chunk_index), and the chunks of two
\* documents sharing a file number never overwrite each other, so every
\* chunk written still has its record
C34_ScriptAndEngineShareKey ==
    /\ \A i, j \in 1..Len(store) : Key(store[i]) = Key(store[j]) => i = j
    /\ \A e \in 1..Len(upsertLog) :
           \E i \in 1..Len(store) :
               Key(store[i]) = Key(upsertLog[e].documents[1])

-----------------------------------------------------------------------------
(* Claims about searching with a stored chunk's own embedding (SpecRank)    *)

\* the embedding the stored record rec was sent with
OriginalEmbedding(rec) == upsertLog[rec.chunk_index + 1].documents[1].embedding

\* a and b point the same way: b is a positive multiple of a
SameDirection(a, b) ==
    /\ Len(a) = Len(b)
    /\ \A i, j \in 1..Len(a) : a[i] * b[j] = a[j] * b[i]
    /\ Dot(a, b) > 0

\* C35: a search whose query vector is the original embedding of a stored
\* chunk ranks that chunk first: no other stored chunk whose original
\* embedding points in a different direction gets a strictly higher score
C35_OwnEmbeddingRanksFirst ==
    searchOut.called =>
        LET q    == searchOut.req.query_embedding
            docs == searchOut.allDocs
        IN  \A i, j \in 1..Len(docs) :
                (/\ OriginalEmbedding(docs[i]) = q
                 /\ ~SameDirection(OriginalEmbedding(docs[j]), q))
                => ScoreCmp(cosineSim(q, docs[j].embedding),
                            cosineSim(q, docs[i].embedding)) <= 0

-----------------------------------------------------------------------------
(* Claims about the database client (SpecClient)                            *)

\* C36: getMongoClient returns only a client whose connect() completed, and
\* cachedClient is non-null only for such a client: a failed connect is not
\* kept, and a call arriving while a connect is pending does not receive
\* the client that is not yet connected
C36_OnlyConnectedClient ==
    /\ fnOut.cachedClient # <<>> => fnOut.connect = "connected"
    /\ \A c \in 1..MaxCallers :
           fnOut.callers[c].at = "returned"
           => fnOut.callers[c].connect = "connected"

-----------------------------------------------------------------------------
(* Claims about discovery (SpecDiscovery)                                   *)

\* C37: when the request names file numbers, every document discovered, and
\* so processed, belongs to one of them, and the run never processes more
\* than pdf_limit documents (3 when pdf_limit is left out)
C37_DiscoveryWithinRequest ==
    (fnOut # <<>> /\ fnIn.file_numbers # <<>>) =>
        /\ \A i \in 1..Len(fnOut.discovered_pdfs) :
               \E k \in 1..Len(fnIn.file_numbers) :
                   fnOut.discovered_pdfs[i].file_number = fnIn.file_numbers[k]
        /\ Len(fnOut.discovered_pdfs)
               <= (IF fnIn.pdf_limit = <<>> THEN PDF_LIMIT
                   ELSE fnIn.pdf_limit[1])

-----------------------------------------------------------------------------
(* Claims about the search options of the entry point (SpecServe)           *)

\* C38: a search applies the caller's limit and min_score whenever they are
\* supplied, min_score = 0 included; the defaults 10 and 0.7 are used only
\* for an option that is left out
C38_SuppliedOptionsApplied ==
    (searchOut.called /\ request # <<>>) =>
        /\ searchOut.limit = (IF request.limit = <<>> THEN DEFAULT_LIMIT
                              ELSE request.limit[1])
        /\ searchOut.min_score = (IF request.min_score = <<>>
                                  THEN DEFAULT_MIN_SCORE
                                  ELSE request.min_score[1])

-----------------------------------------------------------------------------
(* Claims about termination (SpecLive)                                      *)

\* C39: provided each external call eventually returns or fails, every
\* pipeline run eventually reaches a terminal status and returns a response:
\* no stage loops forever
C39_RunTerminates ==
    <>(/\ pc = "done"
       /\ job.status \in {"completed", "failed"}
       /\ response # NoResponse)

\* a run over MaxPdfs documents that went through every stage, the
\* embedding function included, stored chunks and completed
C39_Witness ==
    /\ pc = "done"
    /\ job.status = "completed"
    /\ response # NoResponse
    /\ Len(job.discovered_pdfs) = MaxPdfs
    /\ job.upserted_chunks > 0
    /\ voyage.phase = "answered"
====
